---- MODULE Spec2Model ----
(***************************************************************************)
(* A model of the semantic middle end of the cobra compiler:               *)
(*   - the type resolver        (src/src/passes/typeresolver.rs)           *)
(*   - the LLIR lowerer         (src/src/llrep/mod.rs, llfunction.rs)      *)
(*   - the type checker         (src/src/passes/typechecker.rs)            *)
(* Each pass has a specification of its own (SpecResolve, SpecLower,       *)
(* SpecCheck) over the variables of its group; the variables of the other  *)
(* groups stay at their idle value.                                        *)
(***************************************************************************)
EXTENDS Integers, Sequences, FiniteSets, TLC

VARIABLES
    \* ---- type resolver ----
    rmod0,      \* the module as handed to resolve_types (never changed)
    rmod,       \* the module, mutated in place by the resolver
    rorder,     \* iteration order of module.types (a HashMap) in this run
    rctx,       \* the TypeCheckerContext
    rpc,        \* position in resolve_types: "loop", "forced", "funcs", "done"
    rnum,       \* num_resolved
    ralready,   \* already_resolved
    rpasses,    \* calls of resolve_all_types in this run of resolve_types
    rforced,    \* calls of resolve_all_types in Forced mode in this run
    rresult,    \* the CompileResult of resolve_types (meaningful at "done")
    rrun,       \* 1: first run of resolve_types, 2: run on the resolved module
    rfirst      \* module and context at the end of the first run

rvars == <<rmod0, rmod, rorder, rctx, rpc, rnum, ralready, rpasses, rforced,
           rresult, rrun, rfirst>>

VARIABLES
    \* ---- LLIR lowering ----
    lmd,        \* the typed module handed to compile_to_llrep
    lmod,       \* the LLModule it returns
    ltargets,   \* per lowered function: the DecRef targets of the function scope
                \* when the body has been lowered, before the Return is added
    lpc,        \* "input", "lowered", "walking", "returned", "panic"
    wfn,        \* the LLFunction whose control-flow paths are walked
    wbb,        \* the basic block the walk is in
    wip,        \* index of the next instruction of that block
    wtrace      \* the instructions executed on this path so far

lvars == <<lmd, lmod, ltargets, lpc, wfn, wbb, wip, wtrace>>

VARIABLES
    \* ---- type checker ----
    cmod,       \* the module handed to type_check_module, mutated in place
    corder,     \* iteration order of module.functions (a HashMap)
    cctx,       \* the TypeCheckerContext of this iteration of the loop
    cpc,        \* "resolve", "functions", "instantiate", "done"
    cidx,       \* position of the loop over module.functions
    ccount,     \* module.functions.len() before instantiate_generics
    cresult,    \* the CompileResult of type_check_module (meaningful at "done")
    cin,        \* the module as the parser built it
    crun,       \* 1 in the first call of type_check_module, 2 in a second call
    cfirst,     \* the module as the first call left it (<<>> during that call)
    cchecks     \* how often type_check_function was called, per function

cvars == <<cmod, corder, cctx, cpc, cidx, ccount, cresult, cin, crun, cfirst, cchecks>>

VARIABLES
    \* ---- functions on types, applied to one pair of types ----
    tself,      \* the first type: the concrete type, or the source of a conversion
    tother,     \* the second type: the generic type, or the target of a conversion
    tpc,        \* "input", or the name of the function that was applied
    tout,       \* what it returned
    tround      \* the passes over the arguments resolve_generic_args_in_call has made

tvars == <<tself, tother, tpc, tout, tround>>

VARIABLES
    \* ---- type_check_let on one let expression, one step per check it makes ----
    hlet,       \* the LetExpression, mutated in place
    hctx,       \* the TypeCheckerContext
    hpc,        \* "bindings", "body", "retry_binding", "retry_body", "done"
    hlog,       \* the calls of type_check_expression made so far, with their results
    hresult,    \* the CompileResult of type_check_let (meaningful at "done")
    hin         \* the let expression and the context type_check_let was called with

hvars == <<hlet, hctx, hpc, hlog, hresult, hin>>

VARIABLES
    \* ---- get_dst applied to one LLFunction and one type ----
    gfunc,      \* the LLFunction get_dst or expr_to_llrep is called on
    gtyp,       \* the type asked for, or the type of the expression
    gpc,        \* "input", "get_dst", "lowered", "pattern_test", "arm_lowered", "panic"
    gout,       \* the LLFunction after the call and the variable returned
    gexpr,      \* the expression that is lowered (<<>> for get_dst)
    garm        \* the arm of the match whose pattern test is lowered (0: none)

gvars == <<gfunc, gtyp, gpc, gout, gexpr, garm>>

VARIABLES
    \* ---- the debugger loop of the interpreter ----
    dprog,      \* the program: what Interpreter::step yields at each index
    dindex,     \* dc.index, the current ByteCodeIndex
    dpc,        \* "prompt": the shell waits for a command, "cont": inside the loop
                \* of cont, "ended": run_loop has returned
    dcmd,       \* the command that was run last
    dend        \* why the session ended: "quit", "exit" or "error"

dvars == <<dprog, dindex, dpc, dcmd, dend>>

VARIABLES
    \* ---- the interpreter's ValueRef handles ----
    vcells,     \* the Rc<RefCell<Value>> allocations: strong count and value
    vhandles,   \* the ValueRef handles the interpreter holds, by slot
    vlast,      \* the operation that ran last, its handle and what it returned
    vpc         \* "running" while the interpreter works with the handles

vvars == <<vcells, vhandles, vlast, vpc>>

VARIABLES
    \* ---- Import::resolve applied to one Import ----
    iimport,    \* the Import: namespace, symbols, imported_symbols
    iname,      \* the name that is resolved
    iallow,     \* allow_imported_symbols
    iresult,    \* what resolve returned
    ipc         \* "ready" before the call, "resolved" after it

ivars == <<iimport, iname, iallow, iresult, ipc>>

vars == <<rvars, lvars, cvars, tvars, hvars, gvars, dvars, vvars, ivars>>

\* the value of each group of variables while another pass is being run
IdleResolve ==
    /\ rmod0 = <<>> /\ rmod = <<>> /\ rorder = <<>> /\ rctx = <<>>
    /\ rpc = "idle" /\ rnum = 0 /\ ralready = 0 /\ rpasses = 0 /\ rforced = 0
    /\ rresult = <<>> /\ rrun = 0 /\ rfirst = <<>>

IdleLower ==
    /\ lmd = <<>> /\ lmod = <<>> /\ ltargets = <<>> /\ lpc = "idle"
    /\ wfn = <<>> /\ wbb = 0 /\ wip = 0 /\ wtrace = <<>>

IdleCheck ==
    /\ cmod = <<>> /\ corder = <<>> /\ cctx = <<>> /\ cpc = "idle"
    /\ cidx = 0 /\ ccount = 0 /\ cresult = <<>>
    /\ cin = <<>> /\ crun = 0 /\ cfirst = <<>> /\ cchecks = <<>>

IdleTypes ==
    tself = <<>> /\ tother = <<>> /\ tpc = "idle" /\ tout = <<>> /\ tround = 0

IdleLet ==
    /\ hlet = <<>> /\ hctx = <<>> /\ hpc = "idle" /\ hlog = <<>>
    /\ hresult = <<>> /\ hin = <<>>

IdleDst ==
    /\ gfunc = <<>> /\ gtyp = <<>> /\ gpc = "idle" /\ gout = <<>>
    /\ gexpr = <<>> /\ garm = 0

IdleDebug ==
    dprog = <<>> /\ dindex = 0 /\ dpc = "idle" /\ dcmd = "" /\ dend = ""

IdleValues ==
    vcells = <<>> /\ vhandles = <<>> /\ vlast = <<>> /\ vpc = "idle"

IdleImport ==
    /\ iimport = <<>>
    /\ iname = ""
    /\ iallow = FALSE
    /\ iresult = <<>>
    /\ ipc = "idle"

-----------------------------------------------------------------------------
(* Generic helpers *)

Range(s) == {s[i] : i \in DOMAIN s}

Min(S) == CHOOSE x \in S : \A y \in S : x <= y

RECURSIVE Perms(_)
Perms(S) ==
    IF S = {} THEN {<<>>}
    ELSE UNION {{<<x>> \o p : p \in Perms(S \ {x})} : x \in S}

-----------------------------------------------------------------------------
(* Types (ast::Type) *)

TVoid == [k |-> "Void"]
TUnknown == [k |-> "Unknown"]
TInt == [k |-> "Int"]
TBool == [k |-> "Bool"]
TString == [k |-> "String"]
TChar == [k |-> "Char"]
\* the type of an array literal without elements (typechecker.rs 124)
TEmptyArray == [k |-> "EmptyArray"]
Unresolved(n) == [k |-> "Unresolved", name |-> n]
Generic(n) == [k |-> "Generic", name |-> n]
array_type(t) == [k |-> "Array", elem |-> t]
slice_type(t) == [k |-> "Slice", elem |-> t]
ptr_type(t) == [k |-> "Pointer", inner |-> t]
optional_type(t) == [k |-> "Optional", inner |-> t]
func_type(args, ret) == [k |-> "Func", args |-> args, ret |-> ret]
struct_type(members) == [k |-> "Struct", members |-> members]
\* idx is the case index of Some(idx), or -1 for None
sum_type(cases, idx) == [k |-> "Sum", cases |-> cases, index |-> idx]
enum_type(names, idx) == [k |-> "Enum", cases |-> names, index |-> idx]
sum_type_case(n, t) == [name |-> n, typ |-> t]
struct_member(n, t) == [name |-> n, typ |-> t]

RECURSIVE is_generic(_)
is_generic(t) ==
    CASE t.k = "Generic" -> TRUE
      [] t.k = "Array" -> is_generic(t.elem)
      [] t.k = "Slice" -> is_generic(t.elem)
      [] t.k = "Pointer" -> is_generic(t.inner)
      [] t.k = "Func" ->
            is_generic(t.ret) \/ \E i \in DOMAIN t.args : is_generic(t.args[i])
      [] t.k = "Struct" -> \E i \in DOMAIN t.members : is_generic(t.members[i].typ)
      [] t.k = "Sum" -> \E i \in DOMAIN t.cases : is_generic(t.cases[i].typ)
      [] OTHER -> FALSE

\* Whether an Unresolved placeholder occurs anywhere inside t.
RECURSIVE ContainsUnresolved(_)
ContainsUnresolved(t) ==
    CASE t.k = "Unresolved" -> TRUE
      [] t.k = "Array" -> ContainsUnresolved(t.elem)
      [] t.k = "Func" ->
            ContainsUnresolved(t.ret)
            \/ \E i \in DOMAIN t.args : ContainsUnresolved(t.args[i])
      [] t.k = "Struct" ->
            \E i \in DOMAIN t.members : ContainsUnresolved(t.members[i].typ)
      [] t.k = "Sum" ->
            \E i \in DOMAIN t.cases : ContainsUnresolved(t.cases[i].typ)
      [] OTHER -> FALSE

-----------------------------------------------------------------------------
(* TypeCheckerContext: a stack of frames, each a map from names to types.  *)
(* Its source is not part of src/; modelled from spec.md 4.1/4.2 (a        *)
(* lexically scoped symbol stack mapping names to types).                  *)

NoType == [k |-> "None"]

\* Type::is_sequence, Type::get_element_type (NoType for None)
is_sequence(t) == t.k \in {"Array", "Slice", "String"}

get_element_type(t) ==
    CASE t.k \in {"Array", "Slice"} -> t.elem
      [] t.k = "String" -> TChar
      [] t.k \in {"Pointer", "Optional"} -> t.inner
      [] OTHER -> NoType
EmptyFrame == [n \in {} |-> NoType]

ctx_new == <<EmptyFrame>>

RECURSIVE ctx_resolve_from(_, _, _)
ctx_resolve_from(ctx, name, i) ==
    IF i = 0 THEN NoType
    ELSE IF name \in DOMAIN ctx[i] THEN ctx[i][name]
    ELSE ctx_resolve_from(ctx, name, i - 1)

ctx_resolve_type(ctx, name) == ctx_resolve_from(ctx, name, Len(ctx))

ctx_add(ctx, name, typ) ==
    [ctx EXCEPT ![Len(ctx)] = (name :> typ) @@ ctx[Len(ctx)]]

ctx_names(ctx) == UNION {DOMAIN ctx[i] : i \in DOMAIN ctx}

-----------------------------------------------------------------------------
(* Type resolver: src/src/passes/typeresolver.rs *)

Ok == [ok |-> TRUE]
unknown_name(n) == [ok |-> FALSE, code |-> "UnknownName", name |-> n]

\* resolve_type: only a top-level Unresolved is looked up
resolve_type(ctx, typ) ==
    IF typ.k = "Unresolved"
    THEN LET rt == ctx_resolve_type(ctx, typ.name)
         IN IF rt # NoType THEN [res |-> "Yes", typ |-> rt]
            ELSE [res |-> "No", typ |-> typ]
    ELSE [res |-> "Yes", typ |-> typ]

\* index of the first element of a sequence of types that does not resolve, 0 if none
FirstUnresolved(ctx, typs) ==
    LET bad == {i \in DOMAIN typs : resolve_type(ctx, typs[i]).res = "No"}
    IN IF bad = {} THEN 0 ELSE Min(bad)

\* the in-place loop over a list of {name, typ}: the entries before the first
\* failure are resolved, the others are left as they are
ResolveUpTo(ctx, entries, stop) ==
    [i \in DOMAIN entries |->
        IF stop = 0 \/ i < stop
        THEN [entries[i] EXCEPT !.typ = resolve_type(ctx, entries[i].typ).typ]
        ELSE entries[i]]

\* lines 70-86: the members resolved so far are written back, the first member
\* that does not resolve ends the loop
struct_members_resolved(sd, mode, stop, members) ==
    IF stop # 0
    THEN IF mode = "Lazy"
         THEN [err |-> Ok, res |-> "No", sd |-> [sd EXCEPT !.members = members]]
         ELSE [err |-> unknown_name(sd.members[stop].typ.name), res |-> "No",
               sd |-> [sd EXCEPT !.members = members]]
    ELSE [err |-> Ok, res |-> "Yes",
          sd |-> [sd EXCEPT !.members = members, !.typ = struct_type(members)]]

struct_members_upto(ctx, sd, mode, stop) ==
    struct_members_resolved(sd, mode, stop, ResolveUpTo(ctx, sd.members, stop))

resolve_struct_member_types(ctx, sd, mode) ==
    IF sd.typ # TUnknown
    THEN [err |-> Ok, res |-> "Yes", sd |-> sd]
    ELSE struct_members_upto(ctx, sd, mode,
            FirstUnresolved(ctx, [i \in DOMAIN sd.members |-> sd.members[i].typ]))

NoData == [kind |-> "None"]

\* ctx.add for a list of <<name, type>> pairs, in order
RECURSIVE ctx_add_all(_, _)
ctx_add_all(ctx, pairs) ==
    IF pairs = <<>> THEN ctx
    ELSE ctx_add_all(ctx_add(ctx, pairs[1][1], pairs[1][2]), Tail(pairs))

\* index of the first case whose payload fails or does not resolve, 0 if none
FirstFailedCase(r) ==
    LET bad == {i \in DOMAIN r : ~r[i].err.ok \/ r[i].res = "No"}
    IN IF bad = {} THEN 0 ELSE Min(bad)

\* lines 96-109: the payloads visited by the loop are written back
sum_cases_visited(st, r, stop) ==
    [i \in DOMAIN st.cases |->
        IF st.cases[i].data # NoData /\ (stop = 0 \/ i <= stop)
        THEN [st.cases[i] EXCEPT !.data = r[i].sd]
        ELSE st.cases[i]]

\* lines 111-119: all cases without payload make an enum
sum_as_enum(ctx, st, cases1, case_names, typ) ==
    [err |-> Ok, res |-> "Yes",
     st |-> [st EXCEPT !.cases = cases1, !.typ = typ],
     ctx |-> ctx_add_all(ctx_add(ctx, st.name, typ),
                [i \in DOMAIN cases1 |->
                    <<cases1[i].name, enum_type(case_names, i - 1)>>])]

\* lines 120-129: a sum type, each case typed with its index
sum_with_cases(ctx, st, cases2, typ) ==
    [err |-> Ok, res |-> "Yes",
     st |-> [st EXCEPT !.cases = cases2, !.typ = typ],
     ctx |-> ctx_add_all(ctx_add(ctx, st.name, typ),
                [i \in DOMAIN cases2 |-> <<cases2[i].name, cases2[i].typ>>])]

\* every sum declaration becomes a Sum type, also one without any payload
sum_cases_typed_always_sum(ctx, st, cases1, case_types) ==
    sum_with_cases(ctx, st,
        [i \in DOMAIN cases1 |->
            [cases1[i] EXCEPT !.typ = sum_type(case_types, i - 1)]],
        sum_type(case_types, -1))

\* lines 115-135: an enum when every case type is Int, a sum type otherwise
sum_cases_typed(ctx, st, cases1, case_types) ==
    IF \A i \in DOMAIN case_types : case_types[i].typ = TInt
    THEN sum_as_enum(ctx, st, cases1, [i \in DOMAIN cases1 |-> cases1[i].name],
                     enum_type([i \in DOMAIN cases1 |-> cases1[i].name], -1))
    ELSE sum_with_cases(ctx, st,
            [i \in DOMAIN cases1 |->
                [cases1[i] EXCEPT !.typ = sum_type(case_types, i - 1)]],
            sum_type(case_types, -1))

sum_cases_resolved(ctx, st, r, stop, cases1) ==
    IF stop # 0
    THEN [err |-> r[stop].err, res |-> "No",
          st |-> [st EXCEPT !.cases = cases1], ctx |-> ctx]
    ELSE sum_cases_typed(ctx, st, cases1,
            [i \in DOMAIN st.cases |->
                sum_type_case(st.cases[i].name,
                    IF st.cases[i].data # NoData THEN r[i].sd.typ ELSE TInt)])

sum_cases_upto(ctx, st, r, stop) ==
    sum_cases_resolved(ctx, st, r, stop, sum_cases_visited(st, r, stop))

sum_case_payloads(ctx, st, r) == sum_cases_upto(ctx, st, r, FirstFailedCase(r))

resolve_sum_case_types(ctx, st, mode) ==
    IF st.typ # TUnknown
    THEN [err |-> Ok, res |-> "Yes", st |-> st, ctx |-> ctx]
    ELSE sum_case_payloads(ctx, st,
            [i \in DOMAIN st.cases |->
                IF st.cases[i].data # NoData
                THEN resolve_struct_member_types(ctx, st.cases[i].data, mode)
                ELSE [err |-> Ok, res |-> "Yes", sd |-> NoData]])

\* resolve_all_types: one pass over module.types, in the map's iteration order
RECURSIVE resolve_all_types_from(_, _, _, _, _, _)
\* lines 144-151: a struct declaration
all_types_struct(ctx, types, order, mode, i, num_resolved, r) ==
    IF ~r.err.ok
    THEN [err |-> r.err, ctx |-> ctx, num |-> num_resolved,
          types |-> [types EXCEPT ![order[i]] = r.sd]]
    ELSE IF r.res = "Yes"
    THEN resolve_all_types_from(ctx_add(ctx, r.sd.name, r.sd.typ),
                                [types EXCEPT ![order[i]] = r.sd],
                                order, mode, i + 1, num_resolved + 1)
    ELSE resolve_all_types_from(ctx, [types EXCEPT ![order[i]] = r.sd],
                                order, mode, i + 1, num_resolved)

\* lines 152-156: a sum declaration
all_types_sum(ctx, types, order, mode, i, num_resolved, r) ==
    IF ~r.err.ok
    THEN [err |-> r.err, ctx |-> ctx, num |-> num_resolved,
          types |-> [types EXCEPT ![order[i]] = r.st]]
    ELSE IF r.res = "Yes"
    THEN resolve_all_types_from(r.ctx, [types EXCEPT ![order[i]] = r.st],
                                order, mode, i + 1, num_resolved + 1)
    ELSE resolve_all_types_from(ctx, [types EXCEPT ![order[i]] = r.st],
                                order, mode, i + 1, num_resolved)

resolve_all_types_from(ctx, types, order, mode, i, num_resolved) ==
    IF i > Len(order)
    THEN [err |-> Ok, ctx |-> ctx, types |-> types, num |-> num_resolved]
    ELSE IF types[order[i]].kind = "Struct"
    THEN all_types_struct(ctx, types, order, mode, i, num_resolved,
                          resolve_struct_member_types(ctx, types[order[i]], mode))
    ELSE all_types_sum(ctx, types, order, mode, i, num_resolved,
                       resolve_sum_case_types(ctx, types[order[i]], mode))

resolve_all_types(ctx, module, order, mode) ==
    resolve_all_types_from(ctx, module.types, order, mode, 1, 0)

\* Function::is_generic: a function whose signature mentions a type variable
fun_is_generic(fun) ==
    is_generic(fun.sig.return_type)
    \/ \E i \in DOMAIN fun.sig.args : is_generic(fun.sig.args[i].typ)

resolve_function_args_and_ret_type(ctx, fun) ==
    IF fun_is_generic(fun) \/ fun.sig.typ # TUnknown
    THEN [err |-> Ok, ctx |-> ctx, fun |-> fun]
    ELSE
    LET rr == resolve_type(ctx, fun.sig.return_type)
        fun1 == [fun EXCEPT !.sig.return_type = rr.typ]
    IN IF rr.res = "No"
       THEN [err |-> unknown_name(fun.sig.return_type.name), ctx |-> ctx, fun |-> fun1]
       ELSE
       LET stop == FirstUnresolved(ctx,
                      [i \in DOMAIN fun.sig.args |-> fun.sig.args[i].typ])
           args == ResolveUpTo(ctx, fun.sig.args, stop)
           fun2 == [fun1 EXCEPT !.sig.args = args]
       IN IF stop # 0
          THEN [err |-> unknown_name(fun.sig.args[stop].typ.name), ctx |-> ctx,
                fun |-> fun2]
          ELSE LET typ == func_type([i \in DOMAIN args |-> args[i].typ], rr.typ)
               IN [err |-> Ok, ctx |-> ctx_add(ctx, fun.sig.name, typ),
                   fun |-> [fun2 EXCEPT !.sig.typ = typ]]

\* the loop over module.functions at the end of resolve_types
RECURSIVE resolve_functions_from(_, _, _, _)
resolve_functions_from(ctx, functions, forder, i) ==
    IF i > Len(forder)
    THEN [err |-> Ok, ctx |-> ctx, functions |-> functions]
    ELSE LET r == resolve_function_args_and_ret_type(ctx, functions[forder[i]])
             functions1 == [functions EXCEPT ![forder[i]] = r.fun]
         IN IF ~r.err.ok
            THEN [err |-> r.err, ctx |-> ctx, functions |-> functions1]
            ELSE resolve_functions_from(r.ctx, functions1, forder, i + 1)

\* a loop that goes on until everything is resolved, without the test for a
\* pass that resolved nothing new
after_lazy_pass_no_stall_test(num_resolved, already_resolved, ntypes) ==
    IF num_resolved = ntypes THEN "funcs" ELSE "loop"

\* what resolve_types does after a Lazy pass (lines 176-182)
after_lazy_pass(num_resolved, already_resolved, ntypes) ==
    IF num_resolved = ntypes THEN "funcs"
    ELSE IF already_resolved = num_resolved THEN "forced"
    ELSE "loop"

\* resolve_types as one call (lines 168-191), as type_check_module calls it
RECURSIVE resolve_types_loop(_, _, _, _)
resolve_types_after_pass(r, module, order, already_resolved) ==
    IF ~r.err.ok THEN r
    ELSE CASE after_lazy_pass(r.num, already_resolved,
                              Cardinality(DOMAIN module.types)) = "funcs" -> r
           [] after_lazy_pass(r.num, already_resolved,
                              Cardinality(DOMAIN module.types)) = "forced" ->
                resolve_all_types(r.ctx, [module EXCEPT !.types = r.types], order, "Forced")
           [] OTHER ->
                resolve_types_loop(r.ctx, [module EXCEPT !.types = r.types], order, r.num)

resolve_types_loop(ctx, module, order, num_resolved) ==
    resolve_types_after_pass(resolve_all_types(ctx, module, order, "Lazy"),
                             module, order, num_resolved)

resolve_types_functions(module, fr) ==
    [err |-> fr.err, ctx |-> fr.ctx, module |-> [module EXCEPT !.functions = fr.functions]]

resolve_types_types(module, forder, t) ==
    IF ~t.err.ok
    THEN [err |-> t.err, ctx |-> t.ctx, module |-> [module EXCEPT !.types = t.types]]
    ELSE resolve_types_functions([module EXCEPT !.types = t.types],
                                 resolve_functions_from(t.ctx, module.functions, forder, 1))

resolve_types(ctx, module, order, forder) ==
    resolve_types_types(module, forder, resolve_types_loop(ctx, module, order, 0))

-----------------------------------------------------------------------------
(* The resolver as a state machine: one step per call of resolve_all_types *)
(* and one for the loop over the functions.                                *)

MaxDecls == 2

DeclNamePool == <<"A", "B", "C", "D">>
DeclNames(k) == {DeclNamePool[i] : i \in 1..k}

\* the types a member, payload member or argument is declared with
MemberTypes ==
    {TInt}
    \cup {Unresolved(n) : n \in DeclNames(MaxDecls) \cup {"Missing"}}
    \cup {array_type(Unresolved("A")), array_type(Unresolved("Missing"))}

StructDecl(n, members) ==
    [kind |-> "Struct", name |-> n, members |-> members, typ |-> TUnknown]
SumDecl(n, cases) ==
    [kind |-> "Sum", name |-> n, cases |-> cases, typ |-> TUnknown]
SumCase(n, data) == [name |-> n, data |-> data, typ |-> TUnknown]

\* the types the one member of a payload is declared with
PayloadTypes == {TInt, Unresolved("A"), Unresolved("Missing")}

DeclShapes(n) ==
    {StructDecl(n, <<struct_member("m", t)>>) : t \in MemberTypes}
    \cup {StructDecl(n, <<struct_member("m", Unresolved("A")),
                          struct_member("n", Unresolved("Missing"))>>)}
    \cup {SumDecl(n, <<SumCase(n \o "1", NoData), SumCase(n \o "2", NoData)>>)}
    \cup {SumDecl(n, <<SumCase(n \o "1", StructDecl(n \o "1", <<struct_member("m", t)>>)),
                       SumCase(n \o "2", NoData)>>) : t \in PayloadTypes}

FunDecl(argt, rett) ==
    [sig |-> [name |-> "f", args |-> <<[name |-> "x", typ |-> argt]>>,
              return_type |-> rett, typ |-> TUnknown]]

FunShapes ==
    {FunDecl(t, TInt) : t \in {TInt, Unresolved("A"), Generic("T"),
                                array_type(Unresolved("Missing"))}}

Modules ==
    UNION {
      {[types |-> ts, functions |-> [n \in {"f"} |-> fd]] :
          ts \in {t \in [DeclNames(k) -> UNION {DeclShapes(n) : n \in DeclNames(k)}] :
                    \A n \in DeclNames(k) : t[n].name = n},
          fd \in FunShapes}
      : k \in 0..MaxDecls}

\* a bound on the passes of one run that the loop of resolve_types never reaches
PassCap == MaxDecls + 3

NoSnapshot == [mod |-> NoData, ctx |-> <<>>]

InitResolve ==
    /\ rmod0 \in Modules
    /\ rmod = rmod0
    /\ rorder \in Perms(DOMAIN rmod0.types)
    /\ rctx = ctx_new
    /\ rpc = "loop"
    /\ rnum = 0
    /\ ralready = 0
    /\ rpasses = 0
    /\ rforced = 0
    /\ rresult = Ok
    /\ rrun = 1
    /\ rfirst = NoSnapshot
    /\ IdleLower
    /\ IdleCheck
    /\ IdleTypes
    /\ IdleLet
    /\ IdleDst
    /\ IdleDebug
    /\ IdleValues
    /\ IdleImport

\* one iteration of the loop of resolve_types: a Lazy pass and the test after it
LazyPass ==
    /\ rpc = "loop"
    /\ rpasses < PassCap
    /\ LET r == resolve_all_types(rctx, rmod, rorder, "Lazy")
       IN /\ rmod' = [rmod EXCEPT !.types = r.types]
          /\ rctx' = r.ctx
          /\ rpasses' = rpasses + 1
          /\ ralready' = rnum
          /\ IF r.err.ok
             THEN /\ rnum' = r.num
                  /\ rpc' = after_lazy_pass(r.num, rnum, Cardinality(DOMAIN rmod.types))
                  /\ rresult' = rresult
             ELSE /\ rnum' = rnum
                  /\ rpc' = "done"
                  /\ rresult' = r.err
    /\ UNCHANGED <<rmod0, rorder, rforced, rrun, rfirst, lvars, cvars, tvars, hvars, gvars, dvars, vvars, ivars>>

\* the final pass in Forced mode, run when a Lazy pass resolved nothing new
ForcedPass ==
    /\ rpc = "forced"
    /\ LET r == resolve_all_types(rctx, rmod, rorder, "Forced")
       IN /\ rmod' = [rmod EXCEPT !.types = r.types]
          /\ rctx' = r.ctx
          /\ rpasses' = rpasses + 1
          /\ rforced' = rforced + 1
          /\ IF r.err.ok
             THEN rpc' = "funcs" /\ rresult' = rresult
             ELSE rpc' = "done" /\ rresult' = r.err
    /\ UNCHANGED <<rmod0, rorder, rnum, ralready, rrun, rfirst, lvars, cvars, tvars, hvars, gvars, dvars, vvars, ivars>>

\* the loop over module.functions
ResolveFunctions ==
    /\ rpc = "funcs"
    /\ LET r == resolve_functions_from(rctx, rmod.functions, <<"f">>, 1)
       IN /\ rmod' = [rmod EXCEPT !.functions = r.functions]
          /\ rctx' = r.ctx
          /\ rresult' = r.err
          /\ rpc' = "done"
    /\ UNCHANGED <<rmod0, rorder, rnum, ralready, rpasses, rforced, rrun, rfirst, lvars, cvars, tvars, hvars, gvars, dvars, vvars, ivars>>

\* resolve_types run again on the module it resolved, with a new context, as the
\* next iteration of the loop of type_check_module does
ResolveAgain ==
    /\ rpc = "done"
    /\ rresult.ok
    /\ rrun = 1
    /\ rfirst' = [mod |-> rmod, ctx |-> rctx]
    /\ rctx' = ctx_new
    /\ rnum' = 0
    /\ ralready' = 0
    /\ rpasses' = 0
    /\ rforced' = 0
    /\ rrun' = 2
    /\ rpc' = "loop"
    /\ UNCHANGED <<rmod0, rmod, rorder, rresult, lvars, cvars, tvars, hvars, gvars, dvars, vvars, ivars>>

NextResolve ==
    \/ LazyPass
    \/ ForcedPass
    \/ ResolveFunctions
    \/ ResolveAgain

SpecResolve == InitResolve /\ [][NextResolve]_vars

-----------------------------------------------------------------------------
(* Typed expressions (ast::Expression), as the type checker leaves them *)

IntLit(v) == [e |-> "Literal", lit |-> [l |-> "Int", v |-> v]]
BoolLit(b) == [e |-> "Literal", lit |-> [l |-> "Bool", b |-> b]]
StrLit(s) == [e |-> "Literal", lit |-> [l |-> "String", s |-> s]]
ArrayLit(elements, typ) == [e |-> "ArrayLit", elements |-> elements, array_type |-> typ]
NameRef(n, typ) == [e |-> "NameRef", name |-> n, typ |-> typ]
UnaryOp(op, x, typ) == [e |-> "UnaryOp", operator |-> op, expression |-> x, typ |-> typ]
BinaryOp(op, l, r, typ) ==
    [e |-> "BinaryOp", operator |-> op, left |-> l, right |-> r, typ |-> typ]
Call(callee, args, ret) ==
    [e |-> "Call", callee |-> callee, args |-> args, return_type |-> ret]
LetBinding(n, typ, init) == [name |-> n, typ |-> typ, init |-> init]
Let(bindings, x, typ) ==
    [e |-> "Let", bindings |-> bindings, expression |-> x, typ |-> typ]
MatchCase(pattern, x) == [pattern |-> pattern, to_execute |-> x]
Match(target, cases, typ) ==
    [e |-> "Match", target |-> target, cases |-> cases, typ |-> typ]
If(c, a, b, typ) ==
    [e |-> "If", condition |-> c, on_true |-> a, on_false |-> b, typ |-> typ]
Block(xs, typ) == [e |-> "Block", expressions |-> xs, typ |-> typ]
Lambda(sig, x) == [e |-> "Lambda", sig |-> sig, expr |-> x]

PatternLiteral(lit) == [p |-> "Literal", lit |-> lit]
PatternAny == [p |-> "Any"]
PatternEmptyArray == [p |-> "EmptyArray"]
PatternArray(head, tail) == [p |-> "Array", head |-> head, tail |-> tail]
PatternName(nr) == [p |-> "Name", nr |-> nr]

Argument(n, typ) == [name |-> n, typ |-> typ]
FunctionSignature(n, args, ret) ==
    [name |-> n, args |-> args, return_type |-> ret, typ |-> TUnknown]

\* FunctionSignature::get_type
sig_get_type(sig) ==
    func_type([i \in DOMAIN sig.args |-> sig.args[i].typ], sig.return_type)

\* IfExpression::to_match: an if is a match of its condition against true
to_match(i) ==
    Match(i.condition,
          <<MatchCase(PatternLiteral([l |-> "Bool", b |-> TRUE]), i.on_true),
            MatchCase(PatternAny, i.on_false)>>,
          i.typ)

\* Type::pass_by_value
pass_by_value(t) == t.k \in {"Int", "UInt", "Float", "Char", "Bool", "Pointer", "Enum", "Func"}

\* Type::allocate_on_heap: every type that is not passed by value
allocate_on_heap(t) == ~pass_by_value(t)

string_type == TString

-----------------------------------------------------------------------------
(* LLIR instructions and expressions (llrep::llinstruction) *)

LLExpr_Literal(lit) == [x |-> "Literal", lit |-> lit]
LLExpr_Ref(v) == [x |-> "Ref", var |-> v]
LLExpr_UnaryOp(op, v) == [x |-> "UnaryOp", operator |-> op, var |-> v]
LLExpr_BinaryOp(op, l, r) == [x |-> "BinaryOp", operator |-> op, left |-> l, right |-> r]
LLExpr_Call(n, args) == [x |-> "Call", name |-> n, args |-> args]
LLExpr_HeapAlloc(typ) == [x |-> "HeapAlloc", typ |-> typ]
LLExpr_SumTypeCase(idx) == [x |-> "SumTypeCase", index |-> idx]
LLExpr_Func(n) == [x |-> "Func", name |-> n]
LLExpr_SumTypeIndex(v) == [x |-> "SumTypeIndex", var |-> v]
LLExpr_ArrayHead(v) == [x |-> "ArrayHead", var |-> v]
LLExpr_ArrayTail(v) == [x |-> "ArrayTail", var |-> v]
LLExpr_ArrayProperty(v, prop) == [x |-> "ArrayProperty", var |-> v, property |-> prop]
LLLiteral_Array(vs) == [l |-> "Array", elements |-> vs]

set_instr(dst, expr) == [op |-> "Set", var |-> dst, expr |-> expr]
ret_instr(v) == [op |-> "Return", var |-> v]
branch_if_instr(c, on_true, on_false) ==
    [op |-> "BranchIf", cond |-> c, on_true |-> on_true, on_false |-> on_false]
Branch(bb) == [op |-> "Branch", bb |-> bb]
bind_instr(name, v) == [op |-> "Bind", name |-> name, var |-> v]
Alloc(v) == [op |-> "Alloc", var |-> v]
IncRef(v) == [op |-> "IncRef", var |-> v]
DecRef(v) == [op |-> "DecRef", var |-> v]
StartScope == [op |-> "StartScope"]
EndScope == [op |-> "EndScope"]

IsTerminator(inst) == inst.op \in {"Branch", "BranchIf", "Return"}

-----------------------------------------------------------------------------
(* LLVar, Scope and LLFunction: src/src/llrep/llfunction.rs *)

NoVar == [name |-> "", typ |-> TVoid]
LLVar_new(idx, typ) == [name |-> "$var" \o ToString(idx), typ |-> typ]
LLVar_named(n, typ) == [name |-> n, typ |-> typ]

\* Option<LLVar>
Some(v) == [some |-> TRUE, var |-> v]
None == [some |-> FALSE, var |-> NoVar]

Scope_new == [named_vars |-> [n \in {} |-> NoVar], to_dec_ref |-> <<>>]

Scope_add_named_var(s, var) == [s EXCEPT !.named_vars = (var.name :> var) @@ @]

Scope_add_dec_ref_target(s, v) ==
    IF v.name \notin DOMAIN s.named_vars THEN s
    ELSE [s EXCEPT !.to_dec_ref = Append(@, v)]

\* a removal that leaves the list of targets as it is
Scope_remove_no_target(s, v) == s

Scope_remove_dec_ref_target(s, v) ==
    [s EXCEPT !.to_dec_ref = SelectSeq(@, LAMBDA e : e # v)]

\* a failed assert! or expect(): the compiler panics and produces no module
panic(f) == [f EXCEPT !.panicked = TRUE]

push_instruction(f, inst) == [f EXCEPT !.blocks[f.current_bb] = Append(@, inst)]

RECURSIVE add(_, _)

\* a cleanup that DecRefs the targets in the order of their registration
RECURSIVE Scope_cleanup_in_registration_order(_, _, _)
Scope_cleanup_in_registration_order(f, to_dec_ref, i) ==
    IF i = 0 THEN f
    ELSE Scope_cleanup_in_registration_order(
            add(f, DecRef(to_dec_ref[Len(to_dec_ref) + 1 - i])), to_dec_ref, i - 1)

\* Scope::cleanup: a DecRef for every target, in reverse order of registration
RECURSIVE Scope_cleanup(_, _, _)
Scope_cleanup(f, to_dec_ref, i) ==
    IF i = 0 THEN f
    ELSE Scope_cleanup(add(f, DecRef(to_dec_ref[i])), to_dec_ref, i - 1)

\* an EndScope at the exit of every scope, the function's included
end_scope_at_function_exit_too(f) == add(f, EndScope)

\* lines 223-226: an EndScope, but not at function exit
end_scope(f) == IF f.scopes # <<>> THEN add(f, EndScope) ELSE f

pop_scope(f) ==
    IF f.scopes = <<>> THEN panic(f)
    ELSE end_scope(Scope_cleanup([f EXCEPT !.scopes = SubSeq(@, 1, Len(@) - 1)],
                                 f.scopes[Len(f.scopes)].to_dec_ref,
                                 Len(f.scopes[Len(f.scopes)].to_dec_ref)))

add(f, inst) ==
    IF inst.op = "Return"
    THEN push_instruction(pop_scope(f), inst)
    ELSE push_instruction(f, inst)

create_basic_block(f) ==
    [f EXCEPT !.bb_counter = @ + 1, !.blocks = (f.bb_counter :> <<>>) @@ @]

add_basic_block(f, bb_ref) == [f EXCEPT !.block_order = Append(@, bb_ref)]

set_current_bb(f, bb_ref) ==
    IF bb_ref < Cardinality(DOMAIN f.blocks)
    THEN [f EXCEPT !.current_bb = bb_ref]
    ELSE panic(f)

add_named_var(f, var) ==
    IF f.scopes = <<>> THEN panic(f)
    ELSE [f EXCEPT !.scopes[Len(f.scopes)] = Scope_add_named_var(@, var)]

new_var(f, typ) ==
    add_named_var([f EXCEPT !.var_counter = @ + 1], LLVar_new(f.var_counter, typ))

push_scope(f) == add([f EXCEPT !.scopes = Append(@, Scope_new)], StartScope)

push_destination(f, var) == [f EXCEPT !.destinations = Append(@, var)]

pop_destination(f) ==
    [f EXCEPT !.destinations = IF @ = <<>> THEN @ ELSE SubSeq(@, 1, Len(@) - 1)]

get_destination(f) ==
    IF f.destinations # <<>> /\ f.destinations[Len(f.destinations)].some
    THEN f.destinations[Len(f.destinations)]
    ELSE None

\* LLFunction::add_dec_ref_target: the innermost scope that knows the variable
RECURSIVE add_dec_ref_target_from(_, _, _)
add_dec_ref_target_from(f, v, i) ==
    IF i = 0 THEN f
    ELSE IF v.name \in DOMAIN f.scopes[i].named_vars
    THEN [f EXCEPT !.scopes[i] = Scope_add_dec_ref_target(@, v)]
    ELSE add_dec_ref_target_from(f, v, i - 1)

add_dec_ref_target(f, v) == add_dec_ref_target_from(f, v, Len(f.scopes))

\* LLFunction::remove_dec_ref_target: the current scope only
remove_dec_ref_target(f, v) ==
    IF f.scopes = <<>> THEN panic(f)
    ELSE [f EXCEPT !.scopes[Len(f.scopes)] = Scope_remove_dec_ref_target(@, v)]

RECURSIVE add_named_args(_, _, _)
add_named_args(f, args, i) ==
    IF i > Len(args) THEN f
    ELSE add_named_args(add_named_var(f, LLVar_named(args[i].name, args[i].typ)),
                        args, i + 1)

LLFunction_new(sig) ==
    add_named_args(
        [sig |-> sig, blocks |-> (0 :> <<>>), block_order |-> <<0>>,
         lambdas |-> <<>>, current_bb |-> 0, bb_counter |-> 1, var_counter |-> 0,
         scopes |-> <<Scope_new>>, destinations |-> <<>>, panicked |-> FALSE],
        sig.args, 1)

-----------------------------------------------------------------------------
(* Lowering of expressions: src/src/llrep/mod.rs                           *)
(* A lowering function returns R(f, v): the function being built and the   *)
(* variable that holds the value (NoVar for None).                         *)

R(f, v) == [f |-> f, v |-> v]

add_set(f, expr, dst) == add(f, set_instr(dst, expr))

make_var(f, expr, typ) ==
    R(add_set(new_var(f, typ), expr, LLVar_new(f.var_counter, typ)),
      LLVar_new(f.var_counter, typ))

add_lit(f, lit, dst) == add_set(f, LLExpr_Literal(lit), dst)

make_lit(f, lit, typ) ==
    R(add_set(new_var(f, typ), LLExpr_Literal(lit), LLVar_new(f.var_counter, typ)),
      LLVar_new(f.var_counter, typ))

\* stack_alloc with Some(name)
stack_alloc_named(f, typ, n) ==
    R(add(add_named_var(f, LLVar_named(n, typ)), Alloc(LLVar_named(n, typ))),
      LLVar_named(n, typ))

\* stack_alloc with None
stack_alloc(f, typ) ==
    R(add(new_var(f, typ), Alloc(LLVar_new(f.var_counter, typ))),
      LLVar_new(f.var_counter, typ))

get_dst(f, typ) ==
    IF typ = TUnknown THEN R(panic(f), NoVar)
    ELSE IF get_destination(f).some
    THEN IF get_destination(f).var.typ = typ
         THEN R(f, get_destination(f).var)
         ELSE R(panic(f), get_destination(f).var)
    ELSE stack_alloc(f, typ)

RECURSIVE expr_to_llrep(_, _)
RECURSIVE func_to_llrep(_, _)

\* expect("Expression must return a value")
expect_value(r) == IF r.v = NoVar THEN R(panic(r.f), r.v) ELSE r

to_llrep(f, expr) == expect_value(expr_to_llrep(f, expr))

\* the map of to_llrep over a list of expressions, left to right
RECURSIVE exprs_to_llrep(_, _, _, _)
exprs_collect(r, exprs, i, vs) == exprs_to_llrep(r.f, exprs, i + 1, Append(vs, r.v))

exprs_to_llrep(f, exprs, i, vs) ==
    IF f.panicked \/ i > Len(exprs) THEN R(f, vs)
    ELSE exprs_collect(to_llrep(f, exprs[i]), exprs, i, vs)

\* lines 65-75: the Call instruction, and its destination registered if on the heap
call_register(f, dst) ==
    IF allocate_on_heap(dst.typ) THEN add_dec_ref_target(f, dst) ELSE f

call_emit(a, c, dst) ==
    IF a.f.panicked THEN R(a.f, dst) ELSE
    R(call_register(add(pop_destination(a.f), set_instr(dst, LLExpr_Call(c.callee, a.v))),
                    dst),
      dst)

call_with_dst(d, c) ==
    IF d.f.panicked THEN d ELSE
    call_emit(exprs_to_llrep(push_destination(d.f, None), c.args, 1, <<>>), c, d.v)

call_to_llrep(f, c) == call_with_dst(get_dst(f, c.return_type), c)

binding_init(d, b) ==
    IF d.f.panicked THEN d.f ELSE
    pop_destination(expr_to_llrep(push_destination(d.f, Some(d.v)), b.init).f)

add_binding(f, b) == binding_init(stack_alloc_named(f, b.typ, b.name), b)

RECURSIVE add_bindings(_, _, _)
add_bindings(f, bindings, i) ==
    IF f.panicked \/ i > Len(bindings) THEN f
    ELSE add_bindings(add_binding(f, bindings[i]), bindings, i + 1)

let_with_dst(d, l) ==
    IF d.f.panicked THEN d ELSE
    R(pop_scope(pop_destination(
          to_llrep(push_destination(add_bindings(push_scope(d.f), l.bindings, 1),
                                    Some(d.v)),
                   l.expression).f)),
      d.v)

let_to_llrep(f, l) == let_with_dst(get_dst(f, l.typ), l)

array_lit_set(r, dst) ==
    IF r.f.panicked THEN r.f ELSE
    add_lit(r.f, LLLiteral_Array(r.v), dst)

array_lit_to_llrep(f, a, dst) ==
    array_lit_set(exprs_to_llrep(f, a.elements, 1, <<>>), dst)

\* an arm whose body is not closed by the Branch to the end of the match
match_case_body_without_branch(f, mc, match_case_bb, match_end_bb, next_bb) ==
    IF f.panicked THEN f ELSE
    set_current_bb(
        expr_to_llrep(set_current_bb(f, match_case_bb), mc.to_execute).f,
        next_bb)

match_case_body_to_llrep(f, mc, match_case_bb, match_end_bb, next_bb) ==
    IF f.panicked THEN f ELSE
    set_current_bb(
        add(expr_to_llrep(set_current_bb(f, match_case_bb), mc.to_execute).f,
            Branch(match_end_bb)),
        next_bb)

\* the closure add_literal_case of match_case_to_llrep, after its push of None
\* (lines 292-296)
literal_case_branch(cond, mc, match_case_bb, match_end_bb, next_bb) ==
    IF cond.f.panicked THEN cond.f ELSE
    match_case_body_to_llrep(
        pop_destination(add(cond.f, branch_if_instr(cond.v, match_case_bb, next_bb))),
        mc, match_case_bb, match_end_bb, next_bb)

literal_case_cond(iv, mc, target, match_case_bb, match_end_bb, next_bb) ==
    IF iv.f.panicked THEN iv.f ELSE
    literal_case_branch(
        make_var(iv.f, LLExpr_BinaryOp("Equals", iv.v, target), TBool),
        mc, match_case_bb, match_end_bb, next_bb)

\* add_array_len and make_array_len (lines 126-137)
add_array_len(f, array, dst) == add_set(f, LLExpr_ArrayProperty(array, "Len"), dst)

make_array_len(f, array) ==
    R(add_array_len(new_var(f, TInt), array, LLVar_new(f.var_counter, TInt)),
      LLVar_new(f.var_counter, TInt))

\* bind (lines 53-56)
bind(f, name, var) == add(f, bind_instr(name, var))

\* the test of the length of the sequence against 0 and the BranchIf on it
\* (lines 230-233 and 332-335)
array_len_branch(cond, match_case_bb, next_bb) ==
    IF cond.f.panicked THEN cond.f ELSE
    add(cond.f, branch_if_instr(cond.v, match_case_bb, next_bb))

array_len_cond(length, zero, op, match_case_bb, next_bb) ==
    IF zero.f.panicked THEN zero.f ELSE
    array_len_branch(make_var(zero.f, LLExpr_BinaryOp(op, length.v, zero.v), TBool),
                     match_case_bb, next_bb)

array_len_zero(length, op, match_case_bb, next_bb) ==
    IF length.f.panicked THEN length.f ELSE
    array_len_cond(length, make_lit(length.f, [l |-> "Int", v |-> 0], TInt), op,
                   match_case_bb, next_bb)

array_len_test(f, seq, op, match_case_bb, next_bb) ==
    array_len_zero(make_array_len(f, seq), op, match_case_bb, next_bb)

\* array_pattern_match_to_llrep (lines 219-235): head and tail are extracted
\* and bound, then the length is tested
array_pattern_tail(tail, ap, seq, match_case_bb, next_bb) ==
    IF tail.f.panicked THEN tail.f ELSE
    array_len_test(bind(tail.f, ap.tail, tail.v), seq, "GreaterThan",
                   match_case_bb, next_bb)

array_pattern_head(head, ap, seq, match_case_bb, next_bb) ==
    IF head.f.panicked THEN head.f ELSE
    array_pattern_tail(
        make_var(bind(head.f, ap.head, head.v), LLExpr_ArrayTail(seq), seq.typ),
        ap, seq, match_case_bb, next_bb)

array_pattern_match_to_llrep(f, ap, seq, match_case_bb, next_bb) ==
    IF get_element_type(seq.typ) = NoType THEN panic(f)
    ELSE array_pattern_head(
            make_var(f, LLExpr_ArrayHead(seq), get_element_type(seq.typ)),
            ap, seq, match_case_bb, next_bb)

\* index_of: the index of a case name, -1 for None
index_of(names, n) ==
    IF \E i \in DOMAIN names : names[i] = n
    THEN (CHOOSE i \in DOMAIN names : names[i] = n) - 1
    ELSE -1

\* the names of the cases of a sum type
case_names(st) == [i \in DOMAIN st.cases |-> st.cases[i].name]

\* name_pattern_match_to_llrep (lines 173-205): the test of a name pattern
name_pattern_branch(cond, match_case_bb, next_bb) ==
    IF cond.f.panicked THEN cond.f ELSE
    add(cond.f, branch_if_instr(cond.v, match_case_bb, next_bb))

name_pattern_sum_index(cv, sum_type_index, match_case_bb, next_bb) ==
    IF sum_type_index.f.panicked THEN sum_type_index.f ELSE
    name_pattern_branch(
        make_var(sum_type_index.f,
                 LLExpr_BinaryOp("Equals", sum_type_index.v, cv.v), TBool),
        match_case_bb, next_bb)

name_pattern_sum(cv, target, match_case_bb, next_bb) ==
    IF cv.f.panicked THEN cv.f ELSE
    name_pattern_sum_index(cv, make_var(cv.f, LLExpr_SumTypeIndex(target), TInt),
                           match_case_bb, next_bb)

name_pattern_enum(cv, target, match_case_bb, next_bb) ==
    IF cv.f.panicked THEN cv.f ELSE
    name_pattern_branch(make_var(cv.f, LLExpr_BinaryOp("Equals", target, cv.v), TBool),
                        match_case_bb, next_bb)

name_pattern_test(f, target, match_case_bb, next_bb, nr) ==
    CASE nr.typ.k = "Enum" ->
            IF index_of(nr.typ.cases, nr.name) = -1 THEN panic(f)
            ELSE name_pattern_enum(
                    make_lit(f, [l |-> "Int", v |-> index_of(nr.typ.cases, nr.name)], TInt),
                    target, match_case_bb, next_bb)
      [] nr.typ.k = "Sum" ->
            IF index_of(case_names(nr.typ), nr.name) = -1 THEN panic(f)
            ELSE name_pattern_sum(
                    make_lit(f, [l |-> "Int", v |-> index_of(case_names(nr.typ), nr.name)],
                             TInt),
                    target, match_case_bb, next_bb)
      [] OTHER -> panic(f)

name_pattern_match_to_llrep(f, mc, target, match_end_bb, match_case_bb, next_bb, nr) ==
    match_case_body_to_llrep(name_pattern_test(f, target, match_case_bb, next_bb, nr),
                             mc, match_case_bb, match_end_bb, next_bb)

\* the function as it is when the test of the pattern is lowered: None has been
\* pushed for a literal (line 291), an empty-array (330) and a head/tail
\* pattern (346), nothing for a name pattern (318) and for the wildcard (322)
pattern_test_entry(f, mc, target) ==
    CASE mc.pattern.p = "Literal" -> push_destination(f, None)
      [] mc.pattern.p \in {"EmptyArray", "Array"} ->
            IF target.typ.k = "Array" THEN push_destination(f, None) ELSE panic(f)
      [] OTHER -> f

\* the test of the pattern and the arm's body (lines 292-296, 318-323, 331-336,
\* 347-353)
match_case_from_test(f, mc, target, match_case_bb, match_end_bb, next_bb) ==
    IF f.panicked THEN f ELSE
    CASE mc.pattern.p = "Literal" ->
            literal_case_cond(
                make_lit(f, mc.pattern.lit,
                         IF mc.pattern.lit.l = "Int" THEN TInt ELSE TBool),
                mc, target, match_case_bb, match_end_bb, next_bb)
      [] mc.pattern.p = "Name" ->
            name_pattern_match_to_llrep(f, mc, target, match_end_bb, match_case_bb,
                                        next_bb, mc.pattern.nr)
      [] mc.pattern.p = "Any" ->
            match_case_body_to_llrep(add(f, Branch(match_case_bb)),
                                     mc, match_case_bb, match_end_bb, next_bb)
      [] mc.pattern.p = "EmptyArray" ->
            match_case_body_to_llrep(
                pop_destination(array_len_test(f, target, "Equals",
                                               match_case_bb, next_bb)),
                mc, match_case_bb, match_end_bb, next_bb)
      [] mc.pattern.p = "Array" ->
            match_case_body_to_llrep(
                pop_destination(array_pattern_match_to_llrep(f, mc.pattern, target,
                                                             match_case_bb, next_bb)),
                mc, match_case_bb, match_end_bb, next_bb)

\* the match on mc.pattern (lines 299-378), for literal, name, wildcard and
\* array patterns
match_case_pattern(f, mc, target, match_case_bb, match_end_bb, next_bb) ==
    match_case_from_test(pattern_test_entry(f, mc, target), mc, target,
                         match_case_bb, match_end_bb, next_bb)

\* lines 285-288: the case block and the block of the next test
match_case_blocks(f) ==
    add_basic_block(
        create_basic_block(add_basic_block(create_basic_block(f), f.bb_counter)),
        f.bb_counter + 1)

match_case_to_llrep(f, mc, target, match_end_bb) ==
    match_case_pattern(match_case_blocks(f), mc, target, f.bb_counter, match_end_bb,
                       f.bb_counter + 1)

\* the arms lowered from the last to the first
RECURSIVE match_cases_last_first(_, _, _, _, _)
match_cases_last_first(f, cases, i, target, match_end_bb) ==
    IF f.panicked \/ i > Len(cases) THEN f
    ELSE match_cases_last_first(
            match_case_to_llrep(f, cases[Len(cases) + 1 - i], target, match_end_bb),
            cases, i + 1, target, match_end_bb)

RECURSIVE match_cases_to_llrep(_, _, _, _, _)
match_cases_to_llrep(f, cases, i, target, match_end_bb) ==
    IF f.panicked \/ i > Len(cases) THEN f
    ELSE match_cases_to_llrep(match_case_to_llrep(f, cases[i], target, match_end_bb),
                              cases, i + 1, target, match_end_bb)

\* lines 388-400
\* lines 389-390: the scope of the match, and its destination for the arms
match_scope_entry(d) == push_destination(push_scope(d.f), Some(d.v))

match_with_dst(d, m, target_var, match_end_bb) ==
    IF d.f.panicked THEN d ELSE
    R(pop_scope(
        set_current_bb(
          add_basic_block(
            add(pop_destination(
                  match_cases_to_llrep(match_scope_entry(d),
                                       m.cases, 1, target_var, match_end_bb)),
                Branch(match_end_bb)),
            match_end_bb),
          match_end_bb)),
      d.v)

\* lines 385-388
match_dst(t, m) == get_dst(create_basic_block(pop_destination(t.f)), m.typ)

match_with_target(t, m) ==
    IF t.f.panicked THEN t ELSE
    match_with_dst(match_dst(t, m), m, t.v, t.f.bb_counter)

\* lines 383-385: the target is lowered with no destination
match_target(f, m) == to_llrep(push_destination(f, None), m.target)

match_to_llrep(f, m) == match_with_target(match_target(f, m), m)

\* the function as it is when match_case_to_llrep is called for arm i
match_arm_entry(f, m, i) ==
    match_cases_to_llrep(match_scope_entry(match_dst(match_target(f, m), m)),
                         SubSeq(m.cases, 1, i - 1), 1,
                         match_target(f, m).v, match_target(f, m).f.bb_counter)

\* the closure add_name_ref of name_ref_to_llrep (lines 406-419)
name_ref_incref(f, v, var) ==
    IF allocate_on_heap(var.typ) THEN add(f, IncRef(v)) ELSE f

add_name_ref(f, nr) ==
    IF get_destination(f).some
    THEN R(add_set(name_ref_incref(f, LLVar_named(nr.name, nr.typ), get_destination(f).var),
                   LLExpr_Ref(LLVar_named(nr.name, nr.typ)),
                   get_destination(f).var),
           get_destination(f).var)
    ELSE R(f, LLVar_named(nr.name, nr.typ))

\* lines 425-429: a case of a sum type is a fresh heap value
sum_case_ref(d, idx) ==
    IF d.f.panicked THEN d ELSE
    R(add_set(add_dec_ref_target(add(d.f, set_instr(d.v, LLExpr_HeapAlloc(d.v.typ))), d.v),
              LLExpr_SumTypeCase(idx), d.v),
      d.v)

\* lines 437-439: enums are integers
enum_case_ref(d, idx) ==
    IF d.f.panicked THEN d ELSE
    R(add_lit(d.f, [l |-> "Int", v |-> idx], d.v), d.v)

name_ref_to_llrep(f, nr) ==
    IF nr.typ.k = "Sum"
         /\ index_of([i \in DOMAIN nr.typ.cases |-> nr.typ.cases[i].name], nr.name) # -1
    THEN sum_case_ref(get_dst(f, nr.typ),
            index_of([i \in DOMAIN nr.typ.cases |-> nr.typ.cases[i].name], nr.name))
    ELSE IF nr.typ.k = "Enum" /\ index_of(nr.typ.cases, nr.name) # -1
    THEN enum_case_ref(get_dst(f, nr.typ), index_of(nr.typ.cases, nr.name))
    ELSE add_name_ref(f, nr)

\* lines 464-469
unary_op_set(d, u, v) ==
    IF d.f.panicked THEN d ELSE
    R(add(d.f, set_instr(d.v, LLExpr_UnaryOp(u.operator, v))), d.v)

unary_op_operand(v, u) ==
    IF v.f.panicked THEN v ELSE
    unary_op_set(get_dst(pop_destination(v.f), u.typ), u, v.v)

unary_op_to_llrep(f, u) ==
    unary_op_operand(to_llrep(push_destination(f, None), u.expression), u)

\* lines 473-482
binary_op_set(d, op, l, r) ==
    IF d.f.panicked THEN d ELSE
    R(call_register(add(d.f, set_instr(d.v, LLExpr_BinaryOp(op.operator, l, r))), d.v),
      d.v)

binary_op_right(r, op, l) ==
    IF r.f.panicked THEN r ELSE
    binary_op_set(get_dst(pop_destination(r.f), op.typ), op, l, r.v)

binary_op_left(l, op) ==
    IF l.f.panicked THEN l ELSE
    binary_op_right(to_llrep(l.f, op.right), op, l.v)

\* the operands lowered with the destination of the operation itself
binary_op_into_destination(f, op) ==
    binary_op_left(to_llrep(push_destination(f, get_destination(f)), op.left), op)

binary_op_to_llrep(f, op) ==
    binary_op_left(to_llrep(push_destination(f, None), op.left), op)

\* a literal of a type that is passed by value (lines 485-495, 505-515)
value_lit(d, lit) ==
    IF d.f.panicked THEN d ELSE
    R(add_lit(d.f, lit, d.v), d.v)

\* lines 497-503
string_lit(d, lit) ==
    IF d.f.panicked THEN d ELSE
    R(add_lit(add_dec_ref_target(add(d.f, set_instr(d.v, LLExpr_HeapAlloc(d.v.typ))), d.v),
              lit, d.v),
      d.v)

\* lines 517-525
array_lit(d, a) ==
    IF d.f.panicked THEN d ELSE
    R(pop_destination(
        array_lit_to_llrep(
          push_destination(
            add_dec_ref_target(add(d.f, set_instr(d.v, LLExpr_HeapAlloc(d.v.typ))), d.v),
            None),
          a, d.v)),
      d.v)

literal_to_llrep(f, lit) ==
    IF lit.l = "String" THEN string_lit(get_dst(f, string_type), lit)
    ELSE IF lit.l = "Int" THEN value_lit(get_dst(f, TInt), lit)
    ELSE value_lit(get_dst(f, TBool), lit)

\* lines 567-581
RECURSIVE block_exprs_to_llrep(_, _, _)
block_exprs_to_llrep(f, exprs, idx) ==
    IF f.panicked \/ idx > Len(exprs) THEN f
    ELSE IF idx = Len(exprs)
    THEN block_exprs_to_llrep(expr_to_llrep(f, exprs[idx]).f, exprs, idx + 1)
    ELSE block_exprs_to_llrep(
            pop_destination(expr_to_llrep(push_destination(f, None), exprs[idx]).f),
            exprs, idx + 1)

block_with_dst(d, b) ==
    IF d.f.panicked THEN d ELSE
    R(pop_destination(block_exprs_to_llrep(push_destination(d.f, Some(d.v)),
                                           b.expressions, 1)),
      d.v)

block_to_llrep(f, b) == block_with_dst(get_dst(f, b.typ), b)

\* lines 584-588
lambda_set(d, l) ==
    IF d.f.panicked THEN d ELSE
    R(add_set(d.f, LLExpr_Func(l.sig.name), d.v), d.v)

lambda_to_llrep(f, l) ==
    lambda_set(get_dst([f EXCEPT !.lambdas = Append(@, func_to_llrep(l.sig, l.expr))],
                       sig_get_type(l.sig)),
               l)

\* after a panic nothing more is lowered
expr_to_llrep(f, expr) ==
    IF f.panicked THEN R(f, NoVar) ELSE
    CASE expr.e = "NameRef" -> name_ref_to_llrep(f, expr)
      [] expr.e = "UnaryOp" -> unary_op_to_llrep(f, expr)
      [] expr.e = "BinaryOp" -> binary_op_to_llrep(f, expr)
      [] expr.e = "Literal" -> literal_to_llrep(f, expr.lit)
      [] expr.e = "ArrayLit" -> array_lit(get_dst(f, expr.array_type), expr)
      [] expr.e = "Call" -> call_to_llrep(f, expr)
      [] expr.e = "Let" -> let_to_llrep(f, expr)
      [] expr.e = "Match" -> match_to_llrep(f, expr)
      [] expr.e = "If" -> match_to_llrep(f, to_match(expr))
      [] expr.e = "Block" -> block_to_llrep(f, expr)
      [] expr.e = "Lambda" -> lambda_to_llrep(f, expr)
      [] OTHER -> R(f, NoVar)

\* lines 632-635: the result is moved out of the function, then the Return
func_return(r) ==
    IF r.f.panicked THEN r.f ELSE
    add(IF allocate_on_heap(r.v.typ) THEN remove_dec_ref_target(r.f, r.v) ELSE r.f,
        ret_instr(r.v))

\* lines 630-631
func_body_to_llrep(sig, expression) == to_llrep(LLFunction_new(sig), expression)

func_to_llrep(sig, expression) == func_return(func_body_to_llrep(sig, expression))

RECURSIVE externals_to_llrep(_, _, _)
externals_to_llrep(externals, order, i) ==
    IF i > Len(order) THEN <<>>
    ELSE <<LLFunction_new(externals[order[i]].sig)>>
         \o externals_to_llrep(externals, order, i + 1)

RECURSIVE functions_to_llrep(_, _, _)
functions_to_llrep(functions, order, i) ==
    IF i > Len(order) THEN <<>>
    ELSE (IF ~fun_is_generic(functions[order[i]])
          THEN <<func_to_llrep(functions[order[i]].sig, functions[order[i]].expression)>>
          ELSE <<>>)
         \o functions_to_llrep(functions, order, i + 1)

compile_to_llrep(md) ==
    [name |-> md.name,
     functions |-> externals_to_llrep(md.externals, md.external_order, 1)
                   \o functions_to_llrep(md.functions, md.function_order, 1)]

-----------------------------------------------------------------------------
(* The lowering as a state machine: compile_to_llrep on a typed module,    *)
(* followed by a walk along a control-flow path of one of its functions.   *)

MaxDepth == 2

FnArgs == <<Argument("a", TInt), Argument("s", TString), Argument("b", TBool)>>

expr_type(x) ==
    CASE x.e = "Literal" ->
            (IF x.lit.l = "Int" THEN TInt ELSE IF x.lit.l = "Bool" THEN TBool ELSE TString)
      [] x.e = "ArrayLit" -> x.array_type
      [] x.e = "Call" -> x.return_type
      [] x.e = "Lambda" -> sig_get_type(x.sig)
      [] OTHER -> x.typ

Leaves == {IntLit(2), NameRef("a", TInt), StrLit("s"), NameRef("s", TString)}

DefaultOf(t) == IF t = TInt THEN IntLit(0) ELSE StrLit("d")

IntCase(v, x) == MatchCase(PatternLiteral([l |-> "Int", v |-> v]), x)

\* the expressions with x, of type t, as their one nested operand; d names the
\* variables and the lambda they introduce
Wrap(x, t, d) ==
    (IF t = TInt
     THEN {BinaryOp("Add", x, IntLit(1), TInt),
           UnaryOp("Sub", x, TInt),
           Call("g", <<x>>, TString),
           Match(x, <<IntCase(1, IntLit(1)), MatchCase(PatternAny, IntLit(2))>>, TInt)}
     ELSE {})
    \cup (IF t = TString
          THEN {Call("len", <<x>>, TInt), ArrayLit(<<x>>, array_type(TString))}
          ELSE {})
    \cup (IF t.k = "Array" THEN {Call("alen", <<x>>, TInt)} ELSE {})
    \cup (IF t \in {TInt, TString}
          THEN {Let(<<LetBinding("x" \o ToString(d), t, x)>>,
                    NameRef("x" \o ToString(d), t), t),
                Let(<<LetBinding("x" \o ToString(d), TInt, IntLit(1))>>, x, t),
                Match(NameRef("a", TInt),
                      <<IntCase(1, x), MatchCase(PatternAny, DefaultOf(t))>>, t),
                Match(NameRef("a", TInt),
                      <<IntCase(1, DefaultOf(t)), MatchCase(PatternAny, x)>>, t),
                If(NameRef("b", TBool), x, DefaultOf(t), t),
                Block(<<x, IntLit(3)>>, TInt),
                Block(<<StrLit("t"), x>>, t),
                Let(<<LetBinding("h" \o ToString(d), func_type(<<TInt, TString, TBool>>, t),
                                 Lambda(FunctionSignature("lambda" \o ToString(d), FnArgs, t),
                                        x))>>,
                    IntLit(4), TInt)}
          ELSE {})

\* the expressions of nesting depth exactly d
RECURSIVE ExprsAt(_)
ExprsAt(d) ==
    IF d = 0 THEN Leaves
    ELSE UNION {Wrap(x, expr_type(x), d) : x \in ExprsAt(d - 1)}

Bodies == UNION {ExprsAt(d) : d \in 0..MaxDepth}

External(n, argt, ret) == [sig |-> FunctionSignature(n, <<Argument("x", argt)>>, ret)]

Function(sig, x) == [sig |-> sig, expression |-> x]

\* a module with three external declarations, the function f and a generic function
TypedModule(body) ==
    [name |-> "m",
     externals |-> ("g" :> External("g", TInt, TString))
                   @@ ("len" :> External("len", TString, TInt))
                   @@ ("alen" :> External("alen", array_type(TString), TInt)),
     external_order |-> <<"g", "len", "alen">>,
     functions |-> ("f" :> Function(FunctionSignature("f", FnArgs, expr_type(body)), body))
                   @@ ("id" :> Function(FunctionSignature("id",
                                            <<Argument("x", Generic("T"))>>, Generic("T")),
                                        NameRef("x", Generic("T")))),
     function_order |-> <<"f", "id">>]

\* the lambdas of an expression, each as the function lambda_to_llrep lowers
RECURSIVE LambdasIn(_)
LambdasIn(x) ==
    CASE x.e = "Lambda" -> {Function(x.sig, x.expr)} \cup LambdasIn(x.expr)
      [] x.e = "UnaryOp" -> LambdasIn(x.expression)
      [] x.e = "BinaryOp" -> LambdasIn(x.left) \cup LambdasIn(x.right)
      [] x.e = "ArrayLit" -> UNION {LambdasIn(x.elements[i]) : i \in DOMAIN x.elements}
      [] x.e = "Call" -> UNION {LambdasIn(x.args[i]) : i \in DOMAIN x.args}
      [] x.e = "Let" ->
            LambdasIn(x.expression)
            \cup UNION {LambdasIn(x.bindings[i].init) : i \in DOMAIN x.bindings}
      [] x.e = "Match" ->
            LambdasIn(x.target)
            \cup UNION {LambdasIn(x.cases[i].to_execute) : i \in DOMAIN x.cases}
      [] x.e = "If" ->
            LambdasIn(x.condition) \cup LambdasIn(x.on_true) \cup LambdasIn(x.on_false)
      [] x.e = "Block" -> UNION {LambdasIn(x.expressions[i]) : i \in DOMAIN x.expressions}
      [] OTHER -> {}

\* the functions func_to_llrep is called on while md is compiled
LoweredFunctions(md) ==
    UNION {{md.functions[n]} \cup LambdasIn(md.functions[n].expression) :
              n \in {m \in DOMAIN md.functions : ~fun_is_generic(md.functions[m])}}

\* the DecRef targets of the function scope when func_to_llrep has lowered the body
FunctionScopeTargets(md) ==
    [n \in {fn.sig.name : fn \in LoweredFunctions(md)} |->
        LET fn == CHOOSE fn \in LoweredFunctions(md) : fn.sig.name = n
        IN func_body_to_llrep(fn.sig, fn.expression).f.scopes[1].to_dec_ref]

\* the LLFunctions of a list, with their lambdas
RECURSIVE AllLLFunctions(_)
AllLLFunctions(fs) ==
    UNION {{fs[i]} \cup AllLLFunctions(fs[i].lambdas) : i \in DOMAIN fs}

Panicked(m) == \E f \in AllLLFunctions(m.functions) : f.panicked

InitLower ==
    /\ lmd \in {TypedModule(body) : body \in Bodies}
    /\ lmod = <<>>
    /\ ltargets = <<>>
    /\ lpc = "input"
    /\ wfn = <<>>
    /\ wbb = 0
    /\ wip = 0
    /\ wtrace = <<>>
    /\ IdleResolve
    /\ IdleCheck
    /\ IdleTypes
    /\ IdleLet
    /\ IdleDst
    /\ IdleDebug
    /\ IdleValues
    /\ IdleImport

Lowered(m) ==
    /\ lmod' = m
    /\ lpc' = IF Panicked(m) THEN "panic" ELSE "lowered"

Lower ==
    /\ lpc = "input"
    /\ Lowered(compile_to_llrep(lmd))
    /\ ltargets' = FunctionScopeTargets(lmd)
    /\ UNCHANGED <<lmd, wfn, wbb, wip, wtrace, rvars, cvars, tvars, hvars, gvars, dvars, vvars, ivars>>

\* a walk starts at the entry block of one of the module's functions
WalkStart ==
    /\ lpc = "lowered"
    /\ wfn' \in AllLLFunctions(lmod.functions)
    /\ wbb' = 0
    /\ wip' = 1
    /\ wtrace' = <<>>
    /\ lpc' = "walking"
    /\ UNCHANGED <<lmd, lmod, ltargets, rvars, cvars, tvars, hvars, gvars, dvars, vvars, ivars>>

AtInstruction == lpc = "walking" /\ wip <= Len(wfn.blocks[wbb])

CurrentInstruction == wfn.blocks[wbb][wip]

WalkInstruction ==
    /\ AtInstruction
    /\ ~IsTerminator(CurrentInstruction)
    /\ wtrace' = Append(wtrace, CurrentInstruction)
    /\ wip' = wip + 1
    /\ UNCHANGED <<lmd, lmod, ltargets, lpc, wfn, wbb, rvars, cvars, tvars, hvars, gvars, dvars, vvars, ivars>>

WalkBranch ==
    /\ AtInstruction
    /\ CurrentInstruction.op = "Branch"
    /\ wtrace' = Append(wtrace, CurrentInstruction)
    /\ wbb' = CurrentInstruction.bb
    /\ wip' = 1
    /\ UNCHANGED <<lmd, lmod, ltargets, lpc, wfn, rvars, cvars, tvars, hvars, gvars, dvars, vvars, ivars>>

WalkBranchIf ==
    /\ AtInstruction
    /\ CurrentInstruction.op = "BranchIf"
    /\ wtrace' = Append(wtrace, CurrentInstruction)
    /\ \E taken \in BOOLEAN :
          wbb' = IF taken THEN CurrentInstruction.on_true
                 ELSE CurrentInstruction.on_false
    /\ wip' = 1
    /\ UNCHANGED <<lmd, lmod, ltargets, lpc, wfn, rvars, cvars, tvars, hvars, gvars, dvars, vvars, ivars>>

WalkReturn ==
    /\ AtInstruction
    /\ CurrentInstruction.op = "Return"
    /\ wtrace' = Append(wtrace, CurrentInstruction)
    /\ lpc' = "returned"
    /\ UNCHANGED <<lmd, lmod, ltargets, wfn, wbb, wip, rvars, cvars, tvars, hvars, gvars, dvars, vvars, ivars>>

NextLower ==
    \/ Lower
    \/ WalkStart
    \/ WalkInstruction
    \/ WalkBranch
    \/ WalkBranchIf
    \/ WalkReturn

SpecLower == InitLower /\ [][NextLower]_vars

-----------------------------------------------------------------------------
(* Type checker: src/src/passes/typechecker.rs                             *)
(* A checking function returns Checked(err, typ, e, ctx): the result, the  *)
(* type of Ok(type), the node as the call leaves it and the context.       *)

\* TypeCheckerContext::push_stack, pop_stack and update (see the note at ctx_new)
ctx_push_stack(ctx) == Append(ctx, EmptyFrame)
ctx_pop_stack(ctx) == SubSeq(ctx, 1, Len(ctx) - 1)

RECURSIVE ctx_update_from(_, _, _, _)
ctx_update_from(ctx, name, typ, i) ==
    IF i = 0 THEN ctx
    ELSE IF name \in DOMAIN ctx[i] THEN [ctx EXCEPT ![i][name] = typ]
    ELSE ctx_update_from(ctx, name, typ, i - 1)

ctx_update(ctx, name, typ) == ctx_update_from(ctx, name, typ, Len(ctx))

type_error == [ok |-> FALSE, code |-> "TypeError"]
unknown_type(name, typ) == [ok |-> FALSE, code |-> "UnknownType", name |-> name, typ |-> typ]
invalid_unary_operator == [ok |-> FALSE, code |-> "InvalidUnaryOperator"]
invalid_binary_operator == [ok |-> FALSE, code |-> "InvalidBinaryOperator"]
calling_non_callable == [ok |-> FALSE, code |-> "CallingNonCallable"]
\* a failed expect(): the compiler stops with an internal error
internal_error == [ok |-> FALSE, code |-> "InternalCompilerError"]

Checked(err, typ, e, ctx) == [err |-> err, typ |-> typ, e |-> e, ctx |-> ctx]
Failed(err, e, ctx) == Checked(err, TUnknown, e, ctx)

\* Type::is_numeric, is_unknown
is_numeric(t) == t.k \in {"Int", "UInt", "Float"}
is_unknown(t) == t = TUnknown
\* Type::is_integer and Type::is_bool
is_integer(t) == t.k \in {"Int", "UInt"}
is_bool(t) == t = TBool

\* the addition table: Char+Char, Int+Int and Float+Float, nothing else
addition_type(l, r) ==
    IF l = r /\ l.k \in {"Char", "Int", "Float"} THEN l ELSE NoType

\* Type::is_convertible
is_convertible(src, dst) ==
    CASE src.k = "Array" /\ dst.k = "Slice" -> src.elem = dst.elem
      [] dst.k = "Optional" -> dst.inner = dst
      [] OTHER -> FALSE

RECURSIVE is_instantiation_of(_, _)
is_instantiation_of(concrete, generic) ==
    IF ~is_generic(generic) THEN concrete = generic
    ELSE CASE concrete.k = "Array" /\ generic.k = "Array" ->
                is_instantiation_of(concrete.elem, generic.elem)
           [] generic.k = "Generic" -> TRUE
           [] concrete.k = "Struct" /\ generic.k = "Struct" ->
                /\ Len(concrete.members) = Len(generic.members)
                /\ \A i \in DOMAIN concrete.members :
                      is_instantiation_of(concrete.members[i].typ, generic.members[i].typ)
           [] concrete.k = "Func" /\ generic.k = "Func" ->
                /\ is_instantiation_of(concrete.ret, generic.ret)
                /\ \A i \in 1..Min({Len(concrete.args), Len(generic.args)}) :
                      is_instantiation_of(concrete.args[i], generic.args[i])
           [] concrete.k = "Sum" /\ generic.k = "Sum" ->
                \A i \in 1..Min({Len(concrete.cases), Len(generic.cases)}) :
                    is_instantiation_of(concrete.cases[i].typ, generic.cases[i].typ)
           [] OTHER -> FALSE

\* Type::is_optional_of, is_matchable
is_optional_of(t, other_type) == t.k = "Optional" /\ t.inner = other_type

is_matchable(t, other) ==
    IF t.k \in {"Array", "Slice"} /\ other.k \in {"Array", "Slice"}
       /\ ~(t.k = "Slice" /\ other.k = "Slice")
    THEN t.elem = other.elem
    ELSE t = other

\* The conversion nodes (ArrayToSlice, ToOptional, OptionalToBool, NilOf(T),
\* TypeCast(expr, to)). Their constructors are not part of src/; each keeps the
\* converted expression and the type it converts to, as spec.md 3 lists them.
array_to_slice(x) == [e |-> "ArrayToSlice", inner |-> x]
to_optional(x, typ) == [e |-> "ToOptional", inner |-> x, typ |-> typ]
OptionalToBool(x) == [e |-> "OptionalToBool", inner |-> x]
nil_expr_with_type(typ) == [e |-> "Nil", typ |-> optional_type(typ)]
type_cast(x, typ) == [e |-> "TypeCast", inner |-> x, typ |-> typ]
VoidExpr == [e |-> "Void"]
NoExpr == [e |-> "None"]

\* Type::convert: the conversion of expr from from_type to to, NoExpr for None.
\* The arms are tried in the order of the match (types.rs 241-285).
convert_pointer(to, from_type, expr) ==
    IF to.inner = TVoid THEN type_cast(expr, ptr_type(TVoid))
    ELSE IF from_type.inner = TVoid THEN type_cast(expr, to)
    ELSE NoExpr

convert(to, from_type, expr) ==
    IF to.k = "Slice" /\ from_type.k = "Array" /\ to.elem = from_type.elem
    THEN array_to_slice(expr)
    ELSE IF to.k = "Optional" /\ to.inner = from_type THEN to_optional(expr, to)
    ELSE IF to.k = "Bool" /\ from_type.k = "Optional" THEN OptionalToBool(expr)
    ELSE IF to.k = "Optional" /\ is_optional_of(from_type, TUnknown)
    THEN nil_expr_with_type(to.inner)
    ELSE IF to.k = "Void" THEN Block(<<expr, VoidExpr>>, TVoid)
    ELSE IF to.k = "Pointer" /\ from_type.k = "Pointer"
    THEN convert_pointer(to, from_type, expr)
    ELSE IF to.k = "Bool" /\ from_type.k = "Pointer" THEN type_cast(expr, TBool)
    ELSE NoExpr

\* GenericMapper::substitute on types: every bound type variable is replaced.
\* Its source is not part of src/; spec.md 4.3 (structural substitution).
RECURSIVE substitute(_, _)
substitute(generic_args, t) ==
    CASE t.k = "Generic" ->
            IF t.name \in DOMAIN generic_args THEN generic_args[t.name] ELSE t
      [] t.k \in {"Array", "Slice"} -> [t EXCEPT !.elem = substitute(generic_args, t.elem)]
      [] t.k \in {"Pointer", "Optional"} ->
            [t EXCEPT !.inner = substitute(generic_args, t.inner)]
      [] t.k = "Func" ->
            func_type([i \in DOMAIN t.args |-> substitute(generic_args, t.args[i])],
                      substitute(generic_args, t.ret))
      [] OTHER -> t

\* fill_in_generics: a concrete type matched against a generic pattern binds
\* the type variables of the pattern; a variable bound to another type is a
\* Type error. Its source is not part of src/; spec.md 4.2 (Unification).
RECURSIVE fill_in_generics(_, _, _)
RECURSIVE fill_in_generics_args(_, _, _, _)
fill_in_generics_args(actual, generic, r, i) ==
    IF ~r.err.ok \/ i > Len(generic.args) THEN r
    ELSE fill_in_generics_args(actual, generic,
            fill_in_generics(actual.args[i], generic.args[i], r.generic_args), i + 1)

fill_in_generics(actual, generic, generic_args) ==
    IF ~is_generic(generic) THEN [err |-> Ok, generic_args |-> generic_args]
    ELSE CASE generic.k = "Generic" ->
                IF generic.name \notin DOMAIN generic_args
                THEN [err |-> Ok,
                      generic_args |-> (generic.name :> actual) @@ generic_args]
                ELSE IF generic_args[generic.name] = actual
                THEN [err |-> Ok, generic_args |-> generic_args]
                ELSE [err |-> type_error, generic_args |-> generic_args]
           [] generic.k \in {"Array", "Slice"} /\ actual.k = generic.k ->
                fill_in_generics(actual.elem, generic.elem, generic_args)
           [] generic.k = "Pointer" /\ actual.k = generic.k ->
                fill_in_generics(actual.inner, generic.inner, generic_args)
           [] generic.k = "Func" /\ actual.k = "Func"
              /\ Len(actual.args) = Len(generic.args) ->
                fill_in_generics_args(actual, generic,
                    fill_in_generics(actual.ret, generic.ret, generic_args), 1)
           [] OTHER -> [err |-> type_error, generic_args |-> generic_args]

\* the loop that adds the arguments to the scope (lines 250-256 and 399-404)
RECURSIVE ctx_add_args(_, _, _)
ctx_add_args(ctx, args, i) ==
    IF i > Len(args) THEN ctx
    ELSE ctx_add_args(ctx_add(ctx, args[i].name, args[i].typ), args, i + 1)

RECURSIVE type_check_expression(_, _, _)

\* type_check_unary_op, after the operand (lines 20-45)
unary_op_typed(u, e_type, ctx) ==
    IF is_generic(e_type) THEN Checked(Ok, e_type, [u EXCEPT !.typ = e_type], ctx)
    ELSE CASE u.operator = "Sub" ->
                IF ~is_numeric(e_type) THEN Failed(type_error, u, ctx)
                ELSE Checked(Ok, e_type, [u EXCEPT !.typ = e_type], ctx)
           [] u.operator = "Not" ->
                IF ~is_bool(e_type) THEN Failed(type_error, u, ctx)
                ELSE Checked(Ok, TBool, [u EXCEPT !.typ = TBool], ctx)
           [] OTHER -> Failed(invalid_unary_operator, u, ctx)

unary_op_operand_typed(u, r) ==
    IF ~r.err.ok THEN Failed(r.err, [u EXCEPT !.expression = r.e], r.ctx)
    ELSE unary_op_typed([u EXCEPT !.expression = r.e], r.typ, r.ctx)

type_check_unary_op(ctx, u) ==
    unary_op_operand_typed(u, type_check_expression(ctx, u.expression, NoType))

\* type_check_binary_op, after the operands (lines 53-118)
binary_op_typed(b, left_type, right_type, ctx) ==
    IF is_generic(left_type) \/ is_generic(right_type) THEN Checked(Ok, left_type, b, ctx)
    ELSE CASE b.operator = "Add" ->
                IF addition_type(left_type, right_type) # NoType
                THEN Checked(Ok, addition_type(left_type, right_type),
                             [b EXCEPT !.typ = addition_type(left_type, right_type)], ctx)
                ELSE Failed(type_error, b, ctx)
           [] b.operator \in {"Sub", "Mul", "Div"} ->
                IF ~is_numeric(left_type) \/ ~is_numeric(right_type)
                THEN Failed(type_error, b, ctx)
                ELSE IF left_type # right_type THEN Failed(type_error, b, ctx)
                ELSE Checked(Ok, left_type, [b EXCEPT !.typ = right_type], ctx)
           [] b.operator \in {"LessThan", "GreaterThan", "LessThanEquals",
                              "GreaterThanEquals"} ->
                IF ~is_numeric(left_type) \/ ~is_numeric(right_type)
                THEN Failed(type_error, b, ctx)
                ELSE IF left_type # right_type THEN Failed(type_error, b, ctx)
                ELSE Checked(Ok, TBool, [b EXCEPT !.typ = TBool], ctx)
           [] b.operator = "Mod" ->
                IF ~is_integer(left_type) \/ ~is_integer(right_type)
                THEN Failed(type_error, b, ctx)
                ELSE Checked(Ok, TInt, [b EXCEPT !.typ = TInt], ctx)
           [] b.operator \in {"Equals", "NotEquals"} ->
                \* lines 103-108: Ok(Type::Bool) is returned, b.typ is not assigned
                IF left_type # right_type THEN Failed(type_error, b, ctx)
                ELSE Checked(Ok, TBool, b, ctx)
           [] b.operator \in {"And", "Or"} ->
                IF ~is_bool(left_type) \/ ~is_bool(right_type)
                THEN Failed(type_error, b, ctx)
                ELSE Checked(Ok, TBool, [b EXCEPT !.typ = TBool], ctx)
           [] OTHER -> Failed(invalid_binary_operator, b, ctx)

binary_op_right_typed(b, left_type, r) ==
    IF ~r.err.ok THEN Failed(r.err, [b EXCEPT !.right = r.e], r.ctx)
    ELSE binary_op_typed([b EXCEPT !.right = r.e], left_type, r.typ, r.ctx)

binary_op_left_typed(b, l) ==
    IF ~l.err.ok THEN Failed(l.err, [b EXCEPT !.left = l.e], l.ctx)
    ELSE binary_op_right_typed([b EXCEPT !.left = l.e], l.typ,
                               type_check_expression(l.ctx, b.right, NoType))

type_check_binary_op(ctx, b) ==
    binary_op_left_typed(b, type_check_expression(ctx, b.left, NoType))

\* type_check_name, once the name is found in the context (lines 478-507)
name_resolved(ctx, nr, type_hint, resolved_type) ==
    IF type_hint = NoType
    THEN Checked(Ok, resolved_type, [nr EXCEPT !.typ = resolved_type], ctx)
    ELSE IF resolved_type = TUnknown
    THEN Failed(unknown_type(nr.name, type_hint), nr, ctx)
    ELSE IF resolved_type = type_hint
    THEN Checked(Ok, resolved_type, [nr EXCEPT !.typ = resolved_type], ctx)
    ELSE IF /\ ~is_generic(resolved_type) /\ ~is_generic(type_hint)
            /\ ~is_convertible(resolved_type, type_hint)
    THEN Failed(type_error, nr, ctx)
    ELSE IF is_generic(resolved_type) /\ ~is_generic(type_hint)
    THEN IF ~is_instantiation_of(type_hint, resolved_type)
         THEN Failed(type_error, nr, ctx)
         ELSE Checked(Ok, type_hint, [nr EXCEPT !.typ = type_hint], ctx)
    ELSE Checked(Ok, resolved_type, [nr EXCEPT !.typ = resolved_type], ctx)

type_check_name(ctx, nr, type_hint) ==
    IF nr.name = "_" THEN Checked(Ok, TUnknown, nr, ctx)
    ELSE IF ~is_unknown(nr.typ) /\ ~is_generic(nr.typ) THEN Checked(Ok, nr.typ, nr, ctx)
    ELSE IF ctx_resolve_type(ctx, nr.name) = NoType
    THEN Failed(unknown_name(nr.name), nr, ctx)
    ELSE name_resolved(ctx, nr, type_hint, ctx_resolve_type(ctx, nr.name))

\* type_check_let: the loop over the bindings (lines 513-517)
RECURSIVE let_bindings_from(_, _, _)
let_binding_typed(bindings, i, r) ==
    IF ~r.err.ok
    THEN [err |-> r.err, bindings |-> [bindings EXCEPT ![i].init = r.e], ctx |-> r.ctx]
    ELSE let_bindings_from(ctx_add(r.ctx, bindings[i].name, r.typ),
                           [bindings EXCEPT ![i].init = r.e, ![i].typ = r.typ], i + 1)

let_bindings_from(ctx, bindings, i) ==
    IF i > Len(bindings) THEN [err |-> Ok, bindings |-> bindings, ctx |-> ctx]
    ELSE let_binding_typed(bindings, i,
                           type_check_expression(ctx, bindings[i].init, NoType))

\* the first binding, whatever its name
binding_named_or_first(bindings, name) == 1

\* the first binding of that name, 0 if there is none
binding_named(bindings, name) ==
    IF \E i \in DOMAIN bindings : bindings[i].name = name
    THEN Min({i \in DOMAIN bindings : bindings[i].name = name})
    ELSE 0

\* lines 529-531: the body checked again after the binding got its hinted type
let_retry_body_typed(l, r) ==
    IF ~r.err.ok THEN Failed(r.err, [l EXCEPT !.expression = r.e], r.ctx)
    ELSE Checked(Ok, r.typ, [l EXCEPT !.expression = r.e, !.typ = r.typ],
                 ctx_pop_stack(r.ctx))

\* lines 528-529: the binding checked again with the expected type as hint
let_retry_binding_typed(l, i, r) ==
    IF ~r.err.ok THEN Failed(r.err, [l EXCEPT !.bindings[i].init = r.e], r.ctx)
    ELSE let_retry_body_typed(
            [l EXCEPT !.bindings[i].init = r.e, !.bindings[i].typ = r.typ],
            type_check_expression(ctx_update(r.ctx, l.bindings[i].name, r.typ),
                                  l.expression, NoType))

\* lines 519-550: an error leaves the function before pop_stack
let_body_typed(l, r) ==
    IF r.err.ok
    THEN Checked(Ok, r.typ, [l EXCEPT !.expression = r.e, !.typ = r.typ],
                 ctx_pop_stack(r.ctx))
    ELSE IF r.err.code = "UnknownType" /\ binding_named(l.bindings, r.err.name) # 0
    THEN let_retry_binding_typed(
            [l EXCEPT !.expression = r.e], binding_named(l.bindings, r.err.name),
            type_check_expression(r.ctx,
                l.bindings[binding_named(l.bindings, r.err.name)].init, r.err.typ))
    ELSE Failed(r.err, [l EXCEPT !.expression = r.e], r.ctx)

let_bindings_typed(l, bs) ==
    IF ~bs.err.ok THEN Failed(bs.err, [l EXCEPT !.bindings = bs.bindings], bs.ctx)
    ELSE let_body_typed([l EXCEPT !.bindings = bs.bindings],
                        type_check_expression(bs.ctx, l.expression, NoType))

type_check_let(ctx, l) ==
    let_bindings_typed(l, let_bindings_from(ctx_push_stack(ctx), l.bindings, 1))

\* type_check_if
if_on_false_typed(i, on_true_type, r) ==
    IF ~r.err.ok THEN Failed(r.err, [i EXCEPT !.on_false = r.e], r.ctx)
    ELSE IF on_true_type # r.typ
    THEN Failed(type_error, [i EXCEPT !.on_false = r.e], r.ctx)
    ELSE Checked(Ok, r.typ, [i EXCEPT !.on_false = r.e, !.typ = on_true_type], r.ctx)

if_on_true_typed(i, r) ==
    IF ~r.err.ok THEN Failed(r.err, [i EXCEPT !.on_true = r.e], r.ctx)
    ELSE if_on_false_typed([i EXCEPT !.on_true = r.e], r.typ,
                           type_check_expression(r.ctx, i.on_false, NoType))

if_condition_typed(i, r) ==
    IF ~r.err.ok THEN Failed(r.err, [i EXCEPT !.condition = r.e], r.ctx)
    ELSE IF r.typ # TBool THEN Failed(type_error, [i EXCEPT !.condition = r.e], r.ctx)
    ELSE if_on_true_typed([i EXCEPT !.condition = r.e],
                          type_check_expression(r.ctx, i.on_true, NoType))

type_check_if(ctx, i) ==
    if_condition_typed(i, type_check_expression(ctx, i.condition, TBool))

\* type_check_block: the hint goes to every expression, the type is the last one's
RECURSIVE block_from(_, _, _, _)
block_expression_typed(b, type_hint, idx, r) ==
    IF ~r.err.ok THEN Failed(r.err, [b EXCEPT !.expressions[idx] = r.e], r.ctx)
    ELSE block_from(r.ctx,
                    IF idx = Len(b.expressions)
                    THEN [b EXCEPT !.expressions[idx] = r.e, !.typ = r.typ]
                    ELSE [b EXCEPT !.expressions[idx] = r.e],
                    type_hint, idx + 1)

block_from(ctx, b, type_hint, idx) ==
    IF idx > Len(b.expressions) THEN Checked(Ok, b.typ, b, ctx)
    ELSE block_expression_typed(b, type_hint, idx,
            type_check_expression(ctx, b.expressions[idx], type_hint))

type_check_block(ctx, b, type_hint) == block_from(ctx, b, type_hint, 1)

\* type_check_array_literal: the loop over the elements (lines 127-135)
RECURSIVE array_elements_from(_, _, _, _)
array_element_typed(a, idx, array_element_type, r) ==
    IF ~r.err.ok THEN Failed(r.err, [a EXCEPT !.elements[idx] = r.e], r.ctx)
    ELSE IF array_element_type = TUnknown
    THEN array_elements_from(r.ctx, [a EXCEPT !.elements[idx] = r.e], idx + 1, r.typ)
    ELSE IF array_element_type # r.typ
    THEN Failed(type_error, [a EXCEPT !.elements[idx] = r.e], r.ctx)
    ELSE array_elements_from(r.ctx, [a EXCEPT !.elements[idx] = r.e], idx + 1,
                             array_element_type)

\* lines 137-144: the array type is recorded, or compared with the one recorded
array_elements_typed(a, typ, ctx) ==
    IF a.array_type = TUnknown THEN Checked(Ok, typ, [a EXCEPT !.array_type = typ], ctx)
    ELSE IF a.array_type # typ THEN Failed(type_error, a, ctx)
    ELSE Checked(Ok, a.array_type, a, ctx)

array_elements_from(ctx, a, idx, array_element_type) ==
    IF idx > Len(a.elements) THEN array_elements_typed(a, array_type(array_element_type), ctx)
    ELSE array_element_typed(a, idx, array_element_type,
                             type_check_expression(ctx, a.elements[idx], NoType))

type_check_array_literal(ctx, a) ==
    IF a.elements = <<>>
    THEN Checked(Ok, TEmptyArray, [a EXCEPT !.array_type = TEmptyArray], ctx)
    ELSE array_elements_from(ctx, a, 1, TUnknown)

\* resolve_generic_args_in_call: one pass over the arguments (lines 177-187)
RECURSIVE generic_args_from(_, _, _, _, _)
generic_arg_filled(ft, c, idx, arg_types, arg_type, ctx, fr) ==
    IF ~fr.err.ok
    THEN [err |-> fr.err, c |-> c, ctx |-> ctx, arg_types |-> arg_types]
    ELSE generic_args_from(ctx, ft, [c EXCEPT !.generic_args = fr.generic_args],
                           idx + 1, Append(arg_types, arg_type))

generic_arg_substituted(ft, c, idx, arg_types, expected_arg_type, arg_type, ctx) ==
    generic_arg_filled(ft, c, idx, arg_types, arg_type, ctx,
        IF is_generic(expected_arg_type)
        THEN fill_in_generics(arg_type, expected_arg_type, c.generic_args)
        ELSE [err |-> Ok, generic_args |-> c.generic_args])

generic_arg_typed(ft, c, idx, arg_types, expected_arg_type, r) ==
    IF ~r.err.ok
    THEN [err |-> r.err, c |-> [c EXCEPT !.args[idx] = r.e], ctx |-> r.ctx,
          arg_types |-> arg_types]
    ELSE generic_arg_substituted(ft, [c EXCEPT !.args[idx] = r.e], idx, arg_types,
                                 expected_arg_type, substitute(c.generic_args, r.typ),
                                 r.ctx)

generic_arg_expected(ctx, ft, c, idx, arg_types, expected_arg_type) ==
    generic_arg_typed(ft, c, idx, arg_types, expected_arg_type,
                      type_check_expression(ctx, c.args[idx], expected_arg_type))

generic_args_from(ctx, ft, c, idx, arg_types) ==
    IF idx > Min({Len(c.args), Len(ft.args)})
    THEN [err |-> Ok, c |-> c, ctx |-> ctx, arg_types |-> arg_types]
    ELSE generic_arg_expected(ctx, ft, c, idx, arg_types,
                              substitute(c.generic_args, ft.args[idx]))

\* lines 174-193: the pass is repeated until generic_args stops growing
RECURSIVE resolve_generic_args_loop(_, _, _, _)
\* a test that never finds the bindings settled
generic_args_never_settled(count, c) == FALSE

\* line 189: the pass added no binding
generic_args_settled(count, c) == Cardinality(DOMAIN c.generic_args) = count

generic_args_pass_done(ft, count, r) ==
    IF ~r.err.ok \/ generic_args_settled(count, r.c) THEN r
    ELSE resolve_generic_args_loop(r.ctx, ft, r.c, Cardinality(DOMAIN r.c.generic_args))

resolve_generic_args_loop(ctx, ft, c, count) ==
    generic_args_pass_done(ft, count, generic_args_from(ctx, ft, c, 1, <<>>))

resolve_generic_args_in_call(ctx, ft, c) ==
    resolve_generic_args_loop(ctx, ft, c, Cardinality(DOMAIN c.generic_args))

\* type_check_call: lines 235-240, the return type
call_return_typed(ft, c, ctx) ==
    IF is_generic(ft.ret)
    THEN Checked(Ok, substitute(c.generic_args, ft.ret),
                 [c EXCEPT !.return_type = substitute(c.generic_args, ft.ret)], ctx)
    ELSE Checked(Ok, ft.ret, [c EXCEPT !.return_type = ft.ret], ctx)

\* lines 210-233: an argument of another type than expected is converted
RECURSIVE call_arguments_from(_, _, _, _, _)
call_argument_converted(ft, c, ctx, arg_types, idx, conversion_expr) ==
    IF conversion_expr # NoExpr
    THEN call_arguments_from(ft, [c EXCEPT !.args[idx] = conversion_expr], ctx,
                             arg_types, idx + 1)
    ELSE Failed(type_error, c, ctx)

call_arguments_from(ft, c, ctx, arg_types, idx) ==
    IF idx > Len(c.args) THEN call_return_typed(ft, c, ctx)
    ELSE IF arg_types[idx] = substitute(c.generic_args, ft.args[idx])
    THEN call_arguments_from(ft, c, ctx, arg_types, idx + 1)
    ELSE call_argument_converted(ft, c, ctx, arg_types, idx,
            convert(substitute(c.generic_args, ft.args[idx]), arg_types[idx], c.args[idx]))

call_generic_args_resolved(ft, r) ==
    IF ~r.err.ok THEN Failed(r.err, r.c, r.ctx)
    ELSE call_arguments_from(ft, r.c, r.ctx, r.arg_types, 1)

call_callee_resolved(ctx, c, func_type_) ==
    IF func_type_.k # "Func" THEN Failed(calling_non_callable, c, ctx)
    ELSE IF Len(func_type_.args) # Len(c.args) THEN Failed(type_error, c, ctx)
    ELSE call_generic_args_resolved(func_type_,
                                    resolve_generic_args_in_call(ctx, func_type_, c))

type_check_call(ctx, c) ==
    IF ctx_resolve_type(ctx, c.callee) = NoType
    THEN Failed(unknown_name(c.callee), c, ctx)
    ELSE call_callee_resolved(ctx, c, ctx_resolve_type(ctx, c.callee))

\* Lambda::is_generic, apply_type and set_return_type are not part of src/;
\* spec.md 4.2: a lambda is generic while a parameter has no concrete type, and
\* a Func type hint instantiates the parameter types
lambda_is_generic(m) == \E i \in DOMAIN m.sig.args : is_generic(m.sig.args[i].typ)

apply_type(m, typ) ==
    IF typ.k # "Func" THEN [err |-> type_error, m |-> m]
    ELSE IF Len(typ.args) # Len(m.sig.args) THEN [err |-> type_error, m |-> m]
    ELSE [err |-> Ok,
          m |-> [m EXCEPT !.sig.args =
                    [i \in DOMAIN m.sig.args |->
                        [m.sig.args[i] EXCEPT !.typ = typ.args[i]]]]]

set_return_type(sig, return_type) ==
    [sig EXCEPT !.return_type = return_type,
                !.typ = func_type([i \in DOMAIN sig.args |-> sig.args[i].typ], return_type)]

\* type_check_lambda_body
lambda_body_typed(m, r) ==
    IF ~r.err.ok THEN Failed(r.err, [m EXCEPT !.expr = r.e], r.ctx)
    ELSE Checked(Ok, set_return_type(m.sig, r.typ).typ,
                 [m EXCEPT !.expr = r.e, !.sig = set_return_type(m.sig, r.typ)],
                 ctx_pop_stack(r.ctx))

type_check_lambda_body(ctx, m) ==
    lambda_body_typed(m,
        type_check_expression(ctx_add_args(ctx_push_stack(ctx), m.sig.args, 1),
                              m.expr, NoType))

\* type_check_lambda with a hint (lines 416-426); the name gets a fresh suffix
lambda_hinted_typed(typ, r) ==
    IF ~r.err.ok THEN r
    ELSE IF r.typ # typ THEN Failed(type_error, r.e, r.ctx)
    ELSE r

lambda_type_applied(ctx, m, typ, a) ==
    IF ~a.err.ok THEN Failed(a.err, m, ctx)
    ELSE lambda_hinted_typed(typ, type_check_lambda_body(ctx, a.m))

type_check_lambda(ctx, m, type_hint) ==
    IF type_hint # NoType
    THEN lambda_type_applied(ctx, [m EXCEPT !.sig.name = "lambda-" \o m.sig.name],
            type_hint,
            apply_type([m EXCEPT !.sig.name = "lambda-" \o m.sig.name], type_hint))
    ELSE IF lambda_is_generic(m) THEN Checked(Ok, TUnknown, m, ctx)
    ELSE type_check_lambda_body(ctx, m)

\* type_check_match: infer_case_type (lines 276-283), on the checked arm body
infer_case_type(return_type, r) ==
    IF ~r.err.ok THEN r
    ELSE IF return_type # TUnknown /\ return_type # r.typ
    THEN Failed(type_error, r.e, r.ctx)
    ELSE r

RECURSIVE match_cases_from(_, _, _, _, _)
\* lines 380-384: the type of the arm against the type of the arms before it;
\* in_scope tells whether the arm was checked in a scope of its own
match_case_typed(m, target_type, return_type, idx, in_scope, r) ==
    IF ~r.err.ok THEN Failed(r.err, [m EXCEPT !.cases[idx].to_execute = r.e], r.ctx)
    ELSE IF return_type = TUnknown
    THEN match_cases_from(IF in_scope THEN ctx_pop_stack(r.ctx) ELSE r.ctx,
                          [m EXCEPT !.cases[idx].to_execute = r.e],
                          target_type, r.typ, idx + 1)
    ELSE IF return_type # r.typ
    THEN Failed(type_error, [m EXCEPT !.cases[idx].to_execute = r.e], r.ctx)
    ELSE match_cases_from(IF in_scope THEN ctx_pop_stack(r.ctx) ELSE r.ctx,
                          [m EXCEPT !.cases[idx].to_execute = r.e],
                          target_type, return_type, idx + 1)

match_case_inferred(ctx, m, target_type, return_type, idx) ==
    match_case_typed(m, target_type, return_type, idx, FALSE,
        infer_case_type(return_type,
            type_check_expression(ctx, m.cases[idx].to_execute, NoType)))

\* lines 288-293
match_empty_array_pattern(ctx, m, target_type, return_type, idx) ==
    IF ~is_sequence(target_type) THEN Failed(type_error, m, ctx)
    ELSE match_case_inferred(ctx, m, target_type, return_type, idx)

\* lines 295-308: head and tail are added to a new scope for the arm
match_array_pattern(ctx, m, target_type, return_type, idx, ap) ==
    IF ~is_sequence(target_type) THEN Failed(type_error, m, ctx)
    ELSE match_case_typed(m, target_type, return_type, idx, TRUE,
            infer_case_type(return_type,
                type_check_expression(
                    ctx_add(ctx_add(ctx_push_stack(ctx), ap.head,
                                    get_element_type(target_type)),
                            ap.tail, array_type(get_element_type(target_type))),
                    m.cases[idx].to_execute, NoType)))

\* SumType::index_of: the index of the case of that name, 0 for None
sum_index_of(st, case_name) ==
    IF \E i \in DOMAIN st.cases : st.cases[i].name = case_name
    THEN Min({i \in DOMAIN st.cases : st.cases[i].name = case_name})
    ELSE 0

\* lines 318-341: the pattern is a name whose type is now known
match_name_typed(ctx, m, target_type, return_type, idx, nr) ==
    IF nr.name # "_" /\ nr.typ # target_type THEN Failed(type_error, m, ctx)
    ELSE CASE nr.typ.k = "Sum" ->
                IF sum_index_of(nr.typ, nr.name) = 0 THEN Failed(internal_error, m, ctx)
                ELSE IF nr.typ.cases[sum_index_of(nr.typ, nr.name)].typ = TInt
                THEN match_case_inferred(ctx, m, target_type, return_type, idx)
                ELSE Failed(type_error, m, ctx)
           [] nr.typ.k = "Enum" ->
                match_case_inferred(ctx, m, target_type, return_type, idx)
           [] OTHER ->
                IF nr.name # "_" THEN Failed(type_error, m, ctx)
                ELSE match_case_inferred(ctx, m, target_type, return_type, idx)

\* lines 310-317
match_name_pattern(m, target_type, return_type, idx, r) ==
    IF ~r.err.ok THEN Failed(r.err, m, r.ctx)
    ELSE match_name_typed(r.ctx, [m EXCEPT !.cases[idx].pattern.nr = r.e],
                          target_type, return_type, idx, r.e)

\* lines 345-357
match_literal_pattern(ctx, m, target_type, return_type, idx, r) ==
    IF ~r.err.ok THEN Failed(r.err, m, r.ctx)
    ELSE IF ~is_matchable(target_type, r.typ) THEN Failed(type_error, m, r.ctx)
    ELSE match_case_inferred(r.ctx, m, target_type, return_type, idx)

\* lines 286-378: the pattern of the arm; the wildcard is the name "_"
match_case_checked(ctx, m, target_type, return_type, idx, pattern) ==
    CASE pattern.p = "EmptyArray" ->
            match_empty_array_pattern(ctx, m, target_type, return_type, idx)
      [] pattern.p = "Array" ->
            match_array_pattern(ctx, m, target_type, return_type, idx, pattern)
      [] pattern.p = "Name" ->
            match_name_pattern(m, target_type, return_type, idx,
                               type_check_name(ctx, pattern.nr, target_type))
      [] pattern.p = "Any" ->
            match_name_typed(ctx, m, target_type, return_type, idx,
                             NameRef("_", TUnknown))
      [] pattern.p = "Literal" ->
            match_literal_pattern(ctx, m, target_type, return_type, idx,
                type_check_expression(ctx, [e |-> "Literal", lit |-> pattern.lit],
                                      NoType))

match_cases_from(ctx, m, target_type, return_type, idx) ==
    IF idx > Len(m.cases)
    THEN Checked(Ok, return_type, [m EXCEPT !.typ = return_type], ctx)
    ELSE match_case_checked(ctx, m, target_type, return_type, idx,
                            m.cases[idx].pattern)

match_target_typed(m, r) ==
    IF ~r.err.ok THEN Failed(r.err, [m EXCEPT !.target = r.e], r.ctx)
    ELSE match_cases_from(r.ctx, [m EXCEPT !.target = r.e], r.typ, TUnknown, 1)

type_check_match(ctx, m) ==
    match_target_typed(m, type_check_expression(ctx, m.target, NoType))

\* the literals of type_check_expression (lines 745-748)
type_check_literal(ctx, e) ==
    CASE e.lit.l = "Int" -> Checked(Ok, TInt, e, ctx)
      [] e.lit.l = "String" -> Checked(Ok, string_type, e, ctx)
      [] e.lit.l = "Bool" -> Checked(Ok, TBool, e, ctx)

type_check_expression(ctx, e, type_hint) ==
    CASE e.e = "UnaryOp" -> type_check_unary_op(ctx, e)
      [] e.e = "BinaryOp" -> type_check_binary_op(ctx, e)
      [] e.e = "ArrayLit" -> type_check_array_literal(ctx, e)
      [] e.e = "Call" -> type_check_call(ctx, e)
      [] e.e = "NameRef" -> type_check_name(ctx, e, type_hint)
      [] e.e = "Match" -> type_check_match(ctx, e)
      [] e.e = "Lambda" -> type_check_lambda(ctx, e, type_hint)
      [] e.e = "Let" -> type_check_let(ctx, e)
      [] e.e = "If" -> type_check_if(ctx, e)
      [] e.e = "Block" -> type_check_block(ctx, e, type_hint)
      [] e.e = "Literal" -> type_check_literal(ctx, e)

\* type_check_function
function_body_typed(fun, r) ==
    IF ~r.err.ok
    THEN [err |-> r.err, ctx |-> r.ctx, fun |-> [fun EXCEPT !.expression = r.e]]
    ELSE IF r.typ # fun.sig.return_type
    THEN [err |-> type_error, ctx |-> ctx_pop_stack(r.ctx),
          fun |-> [fun EXCEPT !.expression = r.e]]
    ELSE [err |-> Ok, ctx |-> ctx_pop_stack(r.ctx),
          fun |-> [fun EXCEPT !.expression = r.e, !.type_checked = TRUE]]

type_check_function(ctx, fun) ==
    function_body_typed(fun,
        type_check_expression(ctx_add_args(ctx_push_stack(ctx), fun.sig.args, 1),
                              fun.expression, NoType))

\* the flag is not looked at: every function is checked in every iteration
check_whether_checked_or_not(ctx, fun) ==
    type_check_function(ctx, fun) @@ [calls |-> 1]

\* type_check_module, lines 773-775: a function that is flagged as checked is
\* skipped; calls counts the calls of type_check_function
check_unless_checked(ctx, fun) ==
    IF fun.type_checked THEN [err |-> Ok, ctx |-> ctx, fun |-> fun, calls |-> 0]
    ELSE type_check_function(ctx, fun) @@ [calls |-> 1]

\* instantiate_generics adds an instance for every checked call that names a
\* generic function of the module and has its generic arguments resolved
\* (spec.md 4.3; no source in src/). No call of a generic function of the
\* module passes type_check_call, which finds no such name in the context that
\* resolve_types builds (typeresolver.rs 43-45), so the module is left as it is
instantiate_generics(module) == module

-----------------------------------------------------------------------------
(* The type checker as a state machine: type_check_module on a parsed      *)
(* module, one step per part of an iteration of its loop.                  *)

MaxCheckDepth == 2

CheckArgs == <<Argument("a", TInt), Argument("b", TBool)>>

\* the expressions without parts: literals, the arguments, an undefined name
CheckLeaves ==
    {IntLit(1), BoolLit(TRUE), NameRef("a", TUnknown), NameRef("b", TUnknown),
     NameRef("u", TUnknown)}

\* the expressions the parser builds around x at nesting depth d; no node is typed
CheckWrap(x, d) ==
    LET v == "v" \o ToString(d)
    IN {UnaryOp("Sub", x, TUnknown),
        UnaryOp("Not", x, TUnknown),
        BinaryOp("Add", x, IntLit(1), TUnknown),
        BinaryOp("Sub", NameRef("a", TUnknown), x, TUnknown),
        BinaryOp("LessThan", x, IntLit(2), TUnknown),
        BinaryOp("Mod", x, IntLit(2), TUnknown),
        BinaryOp("Equals", x, IntLit(1), TUnknown),
        BinaryOp("NotEquals", x, NameRef("b", TUnknown), TUnknown),
        BinaryOp("And", x, NameRef("b", TUnknown), TUnknown),
        Let(<<LetBinding(v, TUnknown, x)>>, NameRef(v, TUnknown), TUnknown),
        Let(<<LetBinding(v, TUnknown, IntLit(1))>>, x, TUnknown),
        If(x, IntLit(1), IntLit(2), TUnknown),
        If(NameRef("b", TUnknown), x, IntLit(3), TUnknown),
        Block(<<IntLit(0), x>>, TUnknown),
        Block(<<x, IntLit(3)>>, TUnknown)}

RECURSIVE ParsedAt(_)
ParsedAt(d) ==
    IF d = 0 THEN CheckLeaves
    ELSE ParsedAt(d - 1) \cup UNION {CheckWrap(x, d) : x \in ParsedAt(d - 1)}

ParsedFunction(sig, x) == [sig |-> sig, expression |-> x, type_checked |-> FALSE]

\* the bodies of the generic function g(x: $T) -> $T
GenericBodies ==
    {UnaryOp("Sub", NameRef("x", TUnknown), TUnknown),
     If(NameRef("x", TUnknown), NameRef("x", TUnknown), NameRef("x", TUnknown), TUnknown)}

\* a module with a struct, the function f(a: int, b: bool) and a generic function
ParsedModules ==
    {[name |-> "m",
      types |-> [n \in {"A"} |-> StructDecl("A", <<struct_member("m", TInt)>>)],
      functions |->
          ("f" :> ParsedFunction(FunctionSignature("f", CheckArgs, ret), body))
          @@ ("g" :> ParsedFunction(
                        FunctionSignature("g", <<Argument("x", Generic("T"))>>,
                                          Generic("T")), gbody))] :
        ret \in {TInt, TBool}, body \in ParsedAt(MaxCheckDepth), gbody \in GenericBodies}

\* a call of type_check_module on the module md
CheckStarts(md) ==
    /\ cmod = md
    /\ cin = md
    /\ corder \in Perms(DOMAIN md.functions)
    /\ cctx = <<>>
    /\ cpc = "resolve"
    /\ cidx = 0
    /\ ccount = 0
    /\ cresult = Ok
    /\ crun = 1
    /\ cfirst = <<>>
    /\ cchecks = [n \in DOMAIN md.functions |-> 0]
    /\ IdleResolve
    /\ IdleLower
    /\ IdleTypes
    /\ IdleLet
    /\ IdleDst
    /\ IdleDebug
    /\ IdleValues
    /\ IdleImport

InitCheck == \E md \in ParsedModules : CheckStarts(md)

\* lines 769-770: a new context, and resolve_types on the module
CheckResolve ==
    /\ cpc = "resolve"
    /\ LET r == resolve_types(ctx_new, cmod, <<"A">>, corder)
       IN /\ cmod' = r.module
          /\ cctx' = r.ctx
          /\ cresult' = r.err
          /\ cpc' = IF r.err.ok THEN "functions" ELSE "done"
    /\ cidx' = 1
    /\ UNCHANGED <<corder, ccount, cin, crun, cfirst, cchecks, rvars, lvars, tvars, hvars, gvars, dvars, vvars, ivars>>

\* lines 772-776: one iteration of the loop over module.functions
CheckFunction ==
    /\ cpc = "functions"
    /\ cidx \in DOMAIN corder
    /\ LET r == check_unless_checked(cctx, cmod.functions[corder[cidx]])
       IN /\ cmod' = [cmod EXCEPT !.functions[corder[cidx]] = r.fun]
          /\ cchecks' = [cchecks EXCEPT ![corder[cidx]] = @ + r.calls]
          /\ cctx' = r.ctx
          /\ cresult' = r.err
          /\ cpc' = IF ~r.err.ok THEN "done"
                    ELSE IF cidx = Len(corder) THEN "instantiate"
                    ELSE "functions"
    /\ cidx' = cidx + 1
    /\ UNCHANGED <<corder, ccount, cin, crun, cfirst, rvars, lvars, tvars, hvars, gvars, dvars, vvars, ivars>>

\* lines 778-783: instantiate_generics, and the test that ends the loop
CheckInstantiate ==
    /\ cpc = "instantiate"
    /\ ccount' = Cardinality(DOMAIN cmod.functions)
    /\ cmod' = instantiate_generics(cmod)
    /\ cpc' = IF ccount' = Cardinality(DOMAIN cmod'.functions) THEN "done" ELSE "resolve"
    /\ UNCHANGED <<corder, cctx, cidx, cresult, cin, crun, cfirst, cchecks,
                   rvars, lvars, tvars, hvars, gvars, dvars, vvars, ivars>>

\* type_check_module is called again on the module that the first call accepted
CheckAgain ==
    /\ cpc = "done"
    /\ cresult.ok
    /\ crun = 1
    /\ crun' = 2
    /\ cfirst' = cmod
    /\ cpc' = "resolve"
    /\ UNCHANGED <<cmod, corder, cctx, cidx, ccount, cresult, cin, cchecks,
                   rvars, lvars, tvars, hvars, gvars, dvars, vvars, ivars>>

NextCheck ==
    \/ CheckResolve
    \/ CheckFunction
    \/ CheckInstantiate
    \/ CheckAgain

SpecCheck == InitCheck /\ [][NextCheck]_vars

-----------------------------------------------------------------------------
(* type_check_let as a state machine: one step per call of                 *)
(* type_check_expression that the function makes on its bindings and body. *)

MaxBindings == 2

\* a call as the parser builds it: no return type, no generic argument yet
ParsedCall(callee, args) ==
    [e |-> "Call", callee |-> callee, args |-> args, return_type |-> TUnknown,
     generic_args |-> EmptyFrame]

\* a lambda whose parameter x has the type annotation typ, or none (a type variable)
ParsedLambda(typ, body) ==
    Lambda(FunctionSignature("l", <<Argument("x", typ)>>, TUnknown), body)

IntToInt == func_type(<<TInt>>, TInt)

\* the scope around the let: two functions that take functions, two arguments,
\* and (within another let) a name u whose type is not known yet
LetScope ==
    ("apply" :> func_type(<<IntToInt, TInt>>, TInt))
    @@ ("both" :> func_type(<<IntToInt, IntToInt>>, TInt))
    @@ ("a" :> TInt) @@ ("b" :> TBool)

LetContexts == {<<LetScope>>, <<LetScope, "u" :> TUnknown>>}

LetInits ==
    {ParsedLambda(Generic("x"), BinaryOp("Add", NameRef("x", TUnknown), IntLit(1), TUnknown)),
     ParsedLambda(Generic("x"), UnaryOp("Not", NameRef("x", TUnknown), TUnknown)),
     ParsedLambda(Generic("x"), BinaryOp("LessThan", NameRef("x", TUnknown), IntLit(2), TUnknown)),
     ParsedLambda(TInt, BinaryOp("Add", NameRef("x", TUnknown), IntLit(1), TUnknown)),
     NameRef("_", TUnknown),
     IntLit(1)}

LetBodies ==
    {ParsedCall("apply", <<NameRef("v1", TUnknown), IntLit(3)>>),
     ParsedCall("apply", <<NameRef("v1", TUnknown), NameRef("b", TUnknown)>>),
     ParsedCall("apply", <<NameRef("v2", TUnknown), IntLit(3)>>),
     ParsedCall("apply", <<NameRef("u", TUnknown), IntLit(3)>>),
     ParsedCall("both", <<NameRef("v1", TUnknown), NameRef("v2", TUnknown)>>),
     If(NameRef("v1", TUnknown), IntLit(1), IntLit(2), TUnknown),
     NameRef("v1", TUnknown),
     BinaryOp("Add", NameRef("a", TUnknown), NameRef("b", TUnknown), TUnknown),
     IntLit(7)}

ParsedLets ==
    {Let([i \in DOMAIN inits |-> LetBinding("v" \o ToString(i), TUnknown, inits[i])],
         body, TUnknown) :
        inits \in UNION {[1..k -> LetInits] : k \in 1..MaxBindings},
        body \in LetBodies}

Logged(call, r) == [call |-> call, err |-> r.err, typ |-> r.typ]

InitLet ==
    /\ hlet \in ParsedLets
    /\ hctx \in LetContexts
    /\ hin = [l |-> hlet, ctx |-> hctx]
    /\ hpc = "bindings"
    /\ hlog = <<>>
    /\ hresult = <<>>
    /\ IdleResolve
    /\ IdleLower
    /\ IdleCheck
    /\ IdleTypes
    /\ IdleDst
    /\ IdleDebug
    /\ IdleValues
    /\ IdleImport

\* lines 512-517: push_stack and the loop over the bindings
LetBindings ==
    /\ hpc = "bindings"
    /\ LET bs == let_bindings_from(ctx_push_stack(hctx), hlet.bindings, 1)
       IN /\ hlet' = [hlet EXCEPT !.bindings = bs.bindings]
          /\ hctx' = bs.ctx
          /\ hpc' = IF bs.err.ok THEN "body" ELSE "done"
          /\ hresult' = IF bs.err.ok THEN hresult
                        ELSE Failed(bs.err, hlet', bs.ctx)
    /\ UNCHANGED <<hlog, hin, rvars, lvars, cvars, tvars, gvars, dvars, vvars, ivars>>

\* lines 519-546: the body is checked; what follows depends on its error
LetBody ==
    /\ hpc = "body"
    /\ LET r == type_check_expression(hctx, hlet.expression, NoType)
       IN /\ hlog' = Append(hlog, Logged("body", r))
          /\ hctx' = IF r.err.ok THEN ctx_pop_stack(r.ctx) ELSE r.ctx
          /\ hlet' = IF r.err.ok THEN [hlet EXCEPT !.expression = r.e, !.typ = r.typ]
                     ELSE [hlet EXCEPT !.expression = r.e]
          /\ hpc' = IF r.err.ok THEN "done"
                    ELSE IF r.err.code = "UnknownType"
                            /\ binding_named(hlet.bindings, r.err.name) # 0
                    THEN "retry_binding"
                    ELSE "done"
          /\ hresult' = IF r.err.ok THEN Checked(Ok, r.typ, hlet', hctx')
                        ELSE IF hpc' = "done" THEN Failed(r.err, hlet', hctx')
                        ELSE hresult
    /\ UNCHANGED <<hin, rvars, lvars, cvars, tvars, gvars, dvars, vvars, ivars>>

\* lines 528-529: the binding named by the error is checked with the hint
LetRetryBinding ==
    /\ hpc = "retry_binding"
    /\ LET cr == hlog[Len(hlog)].err
           i == binding_named(hlet.bindings, cr.name)
           r == type_check_expression(hctx, hlet.bindings[i].init, cr.typ)
       IN /\ hlog' = Append(hlog, Logged("retry_binding", r))
          /\ hlet' = IF r.err.ok
                     THEN [hlet EXCEPT !.bindings[i].init = r.e, !.bindings[i].typ = r.typ]
                     ELSE [hlet EXCEPT !.bindings[i].init = r.e]
          /\ hctx' = IF r.err.ok THEN ctx_update(r.ctx, hlet.bindings[i].name, r.typ)
                     ELSE r.ctx
          /\ hpc' = IF r.err.ok THEN "retry_body" ELSE "done"
          /\ hresult' = IF r.err.ok THEN hresult ELSE Failed(r.err, hlet', hctx')
    /\ UNCHANGED <<hin, rvars, lvars, cvars, tvars, gvars, dvars, vvars, ivars>>

\* lines 530-532 and 549-550: the body is checked again, its result is final
LetRetryBody ==
    /\ hpc = "retry_body"
    /\ LET r == type_check_expression(hctx, hlet.expression, NoType)
       IN /\ hlog' = Append(hlog, Logged("retry_body", r))
          /\ hctx' = IF r.err.ok THEN ctx_pop_stack(r.ctx) ELSE r.ctx
          /\ hlet' = IF r.err.ok THEN [hlet EXCEPT !.expression = r.e, !.typ = r.typ]
                     ELSE [hlet EXCEPT !.expression = r.e]
          /\ hpc' = "done"
          /\ hresult' = IF r.err.ok THEN Checked(Ok, r.typ, hlet', hctx')
                        ELSE Failed(r.err, hlet', hctx')
    /\ UNCHANGED <<hin, rvars, lvars, cvars, tvars, gvars, dvars, vvars, ivars>>

NextLet ==
    \/ LetBindings
    \/ LetBody
    \/ LetRetryBinding
    \/ LetRetryBody

SpecLet == InitLet /\ [][NextLet]_vars

-----------------------------------------------------------------------------
(* type_check_module on programs with calls: a function f with one         *)
(* parameter, or the generic function g, and a function main that calls it *)

CallParamTypes == {optional_type(TInt), TInt, TBool}

CalleeBodies == {NameRef("x", TUnknown), IntLit(1), BoolLit(TRUE)}

MainBodies(callee) ==
    {ParsedCall(callee, <<IntLit(3)>>),
     ParsedCall(callee, <<BoolLit(TRUE)>>),
     ParsedCall(callee, <<ParsedCall(callee, <<IntLit(3)>>)>>)}

CallModule(callee, main) ==
    [name |-> "m",
     types |-> [n \in {"A"} |-> StructDecl("A", <<struct_member("m", TInt)>>)],
     functions |-> (callee.sig.name :> callee) @@ ("main" :> main)]

CallModules ==
    {CallModule(ParsedFunction(FunctionSignature("f", <<Argument("x", p)>>, ret), body),
                ParsedFunction(FunctionSignature("main", <<>>, mret), mbody)) :
        p \in CallParamTypes, ret \in {TBool, TInt}, body \in CalleeBodies,
        mret \in {TBool, TInt}, mbody \in MainBodies("f")}
    \cup
    {CallModule(ParsedFunction(FunctionSignature("g", <<Argument("x", Generic("T"))>>,
                                                 Generic("T")), NameRef("x", TUnknown)),
                ParsedFunction(FunctionSignature("main", <<>>, mret), mbody)) :
        mret \in {TBool, TInt}, mbody \in MainBodies("g")}

InitCalls == \E md \in CallModules : CheckStarts(md)

SpecCalls == InitCalls /\ [][NextCheck]_vars

\* a step of type_check_module, by what it does to the position in the function
CheckAdvances ==
    \/ cpc = "resolve" /\ cpc' \in {"functions", "done"} /\ cidx' = 1 /\ crun' = crun
    \/ cpc = "functions" /\ cpc' \in {"functions", "instantiate", "done"}
       /\ cidx' = cidx + 1 /\ crun' = crun
    \/ cpc = "instantiate" /\ cpc' \in {"resolve", "done"} /\ cidx' = cidx /\ crun' = crun
    \/ cpc = "done" /\ cresult.ok /\ crun = 1 /\ cpc' = "resolve" /\ cidx' = cidx
       /\ crun' = 2

\* type_check_module runs on: a step that can be taken is taken
SpecCallsFair == SpecCalls /\ WF_<<cpc, cidx, crun>>(CheckAdvances)

-----------------------------------------------------------------------------
(* Functions on types as a state machine: a pair of types is drawn and one *)
(* of the functions is applied to it.                                      *)

MaxTypeDepth == 1
MaxArity == 2

BaseTypes == {TInt, TBool, TVoid, TUnknown, Generic("T")}

\* the argument, member and case lists of up to MaxArity types
TypeLists == UNION {[1..n -> {TInt, Generic("T")}] : n \in 1..MaxArity}

ComposedTypes(P) ==
    {array_type(t) : t \in P} \cup {slice_type(t) : t \in P}
    \cup {optional_type(t) : t \in P} \cup {ptr_type(t) : t \in P}
    \cup {func_type(ts, TInt) : ts \in TypeLists}
    \cup {struct_type([i \in DOMAIN ts |-> struct_member("m" \o ToString(i), ts[i])]) :
            ts \in TypeLists}
    \cup {sum_type([i \in DOMAIN ts |-> sum_type_case("C" \o ToString(i), ts[i])], -1) :
            ts \in TypeLists}

RECURSIVE TypesAt(_)
TypesAt(d) ==
    IF d = 0 THEN BaseTypes ELSE TypesAt(d - 1) \cup ComposedTypes(TypesAt(d - 1))

InitTypes ==
    /\ tself \in TypesAt(MaxTypeDepth)
    /\ tother \in TypesAt(MaxTypeDepth)
    /\ tpc = "input"
    /\ tout = <<>>
    /\ tround = 0
    /\ IdleResolve
    /\ IdleLower
    /\ IdleCheck
    /\ IdleLet
    /\ IdleDst
    /\ IdleDebug
    /\ IdleValues
    /\ IdleImport

\* is_instantiation_of(concrete_type, generic_type)
ApplyIsInstantiationOf ==
    /\ tpc = "input"
    /\ tout' = is_instantiation_of(tself, tother)
    /\ tpc' = "is_instantiation_of"
    /\ UNCHANGED <<tself, tother, tround, rvars, lvars, cvars, hvars, gvars, dvars, vvars, ivars>>

\* Type::convert: tother.convert(tself, expr), the conversion of a name of
\* type tself to the type tother
ApplyConvert ==
    /\ tpc = "input"
    /\ tout' = convert(tother, tself, NameRef("v", tself))
    /\ tpc' = "convert"
    /\ UNCHANGED <<tself, tother, tround, rvars, lvars, cvars, hvars, gvars, dvars, vvars, ivars>>

\* the scope of a call of f(x: tother) -> int in a function with a name v of
\* type tself
CallScope == <<("f" :> func_type(<<tother>>, TInt)) @@ ("v" :> tself)>>

\* the arguments of type tself: the name v, and a let that yields v
CallArguments ==
    {NameRef("v", TUnknown),
     Let(<<LetBinding("t", TUnknown, NameRef("v", TUnknown))>>,
         NameRef("t", TUnknown), TUnknown)}

\* type_check_call on the call f(arg)
ApplyTypeCheckCall ==
    /\ tpc = "input"
    /\ \E arg \in CallArguments :
          tout' = [arg |-> arg,
                   r |-> type_check_call(CallScope, ParsedCall("f", <<arg>>))]
    /\ tpc' = "type_check_call"
    /\ UNCHANGED <<tself, tother, tround, rvars, lvars, cvars, hvars, gvars, dvars, vvars, ivars>>

NextTypes ==
    \/ ApplyIsInstantiationOf
    \/ ApplyConvert
    \/ ApplyTypeCheckCall

SpecTypes == InitTypes /\ [][NextTypes]_vars

-----------------------------------------------------------------------------
(* type_check_match as a state machine: a match on the name v, an argument *)
(* of declared type tself, is drawn and checked.                           *)

MaxArms == 2

MatchBaseTypes == {TInt, TBool, TString, Generic("T")}

\* the declared types of the target
MatchTargetTypes ==
    MatchBaseTypes
    \cup {array_type(t) : t \in MatchBaseTypes}
    \cup {slice_type(t) : t \in MatchBaseTypes}
    \cup {optional_type(t) : t \in MatchBaseTypes}

MatchPatterns ==
    {PatternEmptyArray, PatternArray("h", "t"), PatternAny,
     PatternLiteral([l |-> "Int", v |-> 0])}

\* arm bodies: literals, the names the patterns bind, the target, and a lambda
\* whose parameter has no type annotation
MatchBodies ==
    {IntLit(1), BoolLit(TRUE), NameRef("h", TUnknown), NameRef("t", TUnknown),
     NameRef("v", TUnknown), ParsedLambda(Generic("x"), NameRef("x", TUnknown))}

MatchArms == {MatchCase(pattern, body) : pattern \in MatchPatterns, body \in MatchBodies}

ParsedMatches ==
    {Match(NameRef("v", TUnknown), cases, TUnknown) :
        cases \in UNION {[1..n -> MatchArms] : n \in 1..MaxArms}}

\* the scope of the function: its argument v
MatchScope == <<"v" :> tself>>

InitMatch ==
    /\ tself \in MatchTargetTypes
    /\ tother = <<>>
    /\ tpc = "input"
    /\ tout = <<>>
    /\ tround = 0
    /\ IdleResolve
    /\ IdleLower
    /\ IdleCheck
    /\ IdleLet
    /\ IdleDst
    /\ IdleDebug
    /\ IdleValues
    /\ IdleImport

\* type_check_match on the drawn match
ApplyTypeCheckMatch ==
    /\ tpc = "input"
    /\ \E m \in ParsedMatches :
          tout' = [m |-> m, r |-> type_check_match(MatchScope, m)]
    /\ tpc' = "type_check_match"
    /\ UNCHANGED <<tself, tother, tround, rvars, lvars, cvars, hvars, gvars, dvars, vvars, ivars>>

NextMatch == ApplyTypeCheckMatch

SpecMatch == InitMatch /\ [][NextMatch]_vars

-----------------------------------------------------------------------------
(* resolve_generic_args_in_call as a state machine: one step per pass over *)
(* the arguments. tself is the type of the callee, tother the call as it   *)
(* was given, tout the call, the context and the argument types after the  *)
(* last pass.                                                              *)

GenericParameterTypes ==
    {Generic("T"), Generic("U"), array_type(Generic("T")), TInt,
     func_type(<<Generic("T")>>, Generic("U")), func_type(<<TInt>>, Generic("T"))}

GenericCallees ==
    {func_type(args, Generic("T")) :
        args \in UNION {[1..n -> GenericParameterTypes] : n \in 1..MaxArity}}

GenericCallArguments ==
    {NameRef("a", TUnknown), NameRef("b", TUnknown), NameRef("xs", TUnknown),
     ArrayLit(<<>>, TUnknown),
     ParsedLambda(Generic("x"), BinaryOp("Add", NameRef("x", TUnknown), IntLit(1), TUnknown)),
     ParsedLambda(TInt, BinaryOp("LessThan", NameRef("x", TUnknown), IntLit(2), TUnknown))}

GenericCalls(ft) ==
    {ParsedCall("g", args) : args \in [DOMAIN ft.args -> GenericCallArguments]}

GenericArgsCount(c) == Cardinality(DOMAIN c.generic_args)

\* the scope of the calling function
GenericCallScope == LetScope @@ ("xs" :> array_type(TInt))

InitGenericArgs ==
    /\ tself \in GenericCallees
    /\ tother \in GenericCalls(tself)
    /\ tpc = "loop"
    /\ tout = [c |-> tother, ctx |-> <<GenericCallScope>>, arg_types |-> <<>>, err |-> Ok,
               count |-> GenericArgsCount(tother),
               sizes |-> <<GenericArgsCount(tother)>>]
    /\ tround = 0
    /\ IdleResolve
    /\ IdleLower
    /\ IdleCheck
    /\ IdleLet
    /\ IdleDst
    /\ IdleDebug
    /\ IdleValues
    /\ IdleImport

\* lines 189-192 after a pass r
GenericArgsPassTaken(r) ==
    /\ tout' = [c |-> r.c, ctx |-> r.ctx, arg_types |-> r.arg_types, err |-> r.err,
                count |-> GenericArgsCount(r.c),
                sizes |-> Append(tout.sizes, GenericArgsCount(r.c))]
    /\ tpc' = IF ~r.err.ok THEN "failed"
              ELSE IF generic_args_settled(tout.count, r.c) THEN "returned"
              ELSE "loop"
    /\ tround' = tround + 1

\* one iteration of the loop (lines 174-193)
GenericArgsPass ==
    /\ tpc = "loop"
    /\ GenericArgsPassTaken(generic_args_from(tout.ctx, tself, tout.c, 1, <<>>))
    /\ UNCHANGED <<tself, tother, rvars, lvars, cvars, hvars, gvars, dvars, vvars, ivars>>

NextGenericArgs == GenericArgsPass

SpecGenericArgs == InitGenericArgs /\ [][NextGenericArgs]_vars

\* an iteration of the loop, by what it does to the position
GenericArgsLoopAdvances ==
    /\ tpc = "loop"
    /\ tpc' \in {"loop", "returned", "failed"}
    /\ tround' = tround + 1

\* the loop runs on: a pass that can be made is made
SpecGenericArgsFair == SpecGenericArgs /\ WF_<<tpc, tround>>(GenericArgsLoopAdvances)

-----------------------------------------------------------------------------
(* The symbol stack around a check: an expression with scopes of its own   *)
(* is drawn into tself and the context into tother; the expression is      *)
(* checked as it stands, or as the body of a function.                     *)

\* the scope of the surrounding function
StackScope == LetScope @@ ("xs" :> array_type(TInt))

\* a body as it stands, in a nested let, and in an arm with an array pattern
ScopedBodies(b) ==
    {b,
     Let(<<LetBinding("w", TUnknown, IntLit(2))>>, b, TUnknown),
     Match(NameRef("xs", TUnknown), <<MatchCase(PatternArray("h", "t"), b)>>, TUnknown)}

ScopedExprs ==
    UNION {{Let(<<LetBinding("v1", TUnknown, init)>>, body, TUnknown),
            ParsedLambda(TInt, body)} :
              init \in LetInits, body \in UNION {ScopedBodies(b) : b \in LetBodies}}
    \cup UNION {ScopedBodies(b) : b \in LetBodies}

\* fn f(n: int) -> int = body
FunctionOf(body) ==
    ParsedFunction(FunctionSignature("f", <<Argument("n", TInt)>>, TInt), body)

InitStack ==
    /\ tself \in ScopedExprs
    /\ tother = <<StackScope>>
    /\ tpc = "input"
    /\ tout = <<>>
    /\ tround = 0
    /\ IdleResolve
    /\ IdleLower
    /\ IdleCheck
    /\ IdleLet
    /\ IdleDst
    /\ IdleDebug
    /\ IdleValues
    /\ IdleImport

\* type_check_expression on the drawn expression
ApplyTypeCheckExpression ==
    /\ tpc = "input"
    /\ tout' = type_check_expression(tother, tself, NoType)
    /\ tpc' = "type_check_expression"
    /\ UNCHANGED <<tself, tother, tround, rvars, lvars, cvars, hvars, gvars, dvars, vvars, ivars>>

\* type_check_function on a function with the drawn expression as its body
ApplyTypeCheckFunction ==
    /\ tpc = "input"
    /\ tout' = type_check_function(tother, FunctionOf(tself))
    /\ tpc' = "type_check_function"
    /\ UNCHANGED <<tself, tother, tround, rvars, lvars, cvars, hvars, gvars, dvars, vvars, ivars>>

NextStack == ApplyTypeCheckExpression \/ ApplyTypeCheckFunction

SpecStack == InitStack /\ [][NextStack]_vars

-----------------------------------------------------------------------------
(* The lowering of a match: compile_to_llrep on a module whose function f  *)
(* is a match, followed by the walk along a control-flow path.             *)

MatchFnArgs == <<Argument("a", TInt), Argument("xs", array_type(TInt))>>

ArgA == NameRef("a", TInt)
ArgXs == NameRef("xs", array_type(TInt))

\* the body of arm i yields 10 + i: as a literal, through a let, or through a
\* match on xs
MarkerOf(i) == 10 + i

ArmBodies(i) ==
    {IntLit(MarkerOf(i)),
     Let(<<LetBinding("y", TInt, IntLit(MarkerOf(i)))>>, NameRef("y", TInt), TInt),
     Match(ArgXs, <<MatchCase(PatternEmptyArray, IntLit(MarkerOf(i))),
                    MatchCase(PatternAny, IntLit(MarkerOf(i)))>>, TInt)}

\* arm i of a match on an int: the literal i, or the wildcard
IntArms(i) ==
    {MatchCase(pattern, body) :
        pattern \in {PatternLiteral([l |-> "Int", v |-> i]), PatternAny},
        body \in ArmBodies(i)}

\* arm i of a match on an array
ArrayArms(i) ==
    {MatchCase(pattern, IntLit(MarkerOf(i))) :
        pattern \in {PatternEmptyArray, PatternArray("h", "t"), PatternAny}}
    \cup {MatchCase(PatternArray("h", "t"),
                    BinaryOp("Add", NameRef("h", TInt), IntLit(MarkerOf(i)), TInt))}

ArmLists(Arms(_)) ==
    UNION {{cases \in [1..n -> UNION {Arms(i) : i \in 1..n}] :
                \A i \in 1..n : cases[i] \in Arms(i)} : n \in 1..MaxArms}

\* the target of the match on an int: the argument, or a sum to be computed
IntTargets == {ArgA, BinaryOp("Add", ArgA, IntLit(7), TInt)}

LoweredMatches ==
    {Match(target, cases, TInt) : target \in IntTargets, cases \in ArmLists(IntArms)}
    \cup {Match(ArgXs, cases, TInt) : cases \in ArmLists(ArrayArms)}

MatchFunctionModule(body) ==
    [name |-> "m",
     externals |-> [n \in {} |-> <<>>],
     external_order |-> <<>>,
     functions |-> ("f" :> Function(FunctionSignature("f", MatchFnArgs, TInt), body)),
     function_order |-> <<"f">>]

InitLowerMatch ==
    /\ lmd \in {MatchFunctionModule(m) : m \in LoweredMatches}
    /\ lmod = <<>>
    /\ ltargets = <<>>
    /\ lpc = "input"
    /\ wfn = <<>>
    /\ wbb = 0
    /\ wip = 0
    /\ wtrace = <<>>
    /\ IdleResolve
    /\ IdleCheck
    /\ IdleTypes
    /\ IdleLet
    /\ IdleDst
    /\ IdleDebug
    /\ IdleValues
    /\ IdleImport

SpecLowerMatch == InitLowerMatch /\ [][NextLower]_vars

-----------------------------------------------------------------------------
(* get_dst as a state machine: an LLFunction with a destination stack and a *)
(* type are drawn and get_dst is applied.                                   *)

MaxDestinations == 2

DstTypes == {TInt, TBool, TString}

\* the entries of the destination stack: None, or a variable of one of the types
DstEntries == {None} \cup {Some(LLVar_named("dst", t)) : t \in DstTypes}

DestinationStacks == UNION {[1..n -> DstEntries] : n \in 0..MaxDestinations}

RECURSIVE push_destinations(_, _, _)
push_destinations(f, ds, i) ==
    IF i > Len(ds) THEN f
    ELSE push_destinations(push_destination(f, ds[i]), ds, i + 1)

\* a function under construction after these calls of push_destination
DstFunctions ==
    {push_destinations(LLFunction_new(FunctionSignature("f", <<>>, TInt)), ds, 1) :
        ds \in DestinationStacks}

InitDst ==
    /\ gfunc \in DstFunctions
    /\ gtyp \in DstTypes \cup {TUnknown}
    /\ gpc = "input"
    /\ gout = <<>>
    /\ gexpr = <<>>
    /\ garm = 0
    /\ IdleResolve
    /\ IdleLower
    /\ IdleCheck
    /\ IdleTypes
    /\ IdleLet
    /\ IdleDebug
    /\ IdleValues
    /\ IdleImport

ApplyGetDst ==
    /\ gpc = "input"
    /\ gout' = get_dst(gfunc, gtyp)
    /\ gpc' = "get_dst"
    /\ UNCHANGED <<gfunc, gtyp, gexpr, garm, rvars, lvars, cvars, tvars, hvars, dvars, vvars, ivars>>

NextDst == ApplyGetDst

SpecDst == InitDst /\ [][NextDst]_vars

-----------------------------------------------------------------------------
(* expr_to_llrep as a state machine: an expression is lowered on an         *)
(* LLFunction that has a destination stack. For a match, one arm can be     *)
(* lowered in two steps instead, up to the point where the test of its      *)
(* pattern is lowered, and from there to the end of the arm.                *)

EnumColour == enum_type(<<"Red", "Green">>, -1)

SumShape == sum_type(<<sum_type_case("Dot", TInt), sum_type_case("Line", TInt)>>, -1)

\* matches on an enum, on a sum type and on an array
PatternMatches ==
    {Match(NameRef("c", EnumColour),
           <<MatchCase(PatternName(NameRef("Green", EnumColour)), NameRef("a", TInt)),
             MatchCase(PatternAny, IntLit(2))>>, TInt),
     Match(NameRef("u", SumShape),
           <<MatchCase(PatternName(NameRef("Line", SumShape)), IntLit(1)),
             MatchCase(PatternAny, NameRef("a", TInt))>>, TInt),
     Match(ArgXs,
           <<MatchCase(PatternEmptyArray, IntLit(1)),
             MatchCase(PatternArray("h", "t"), NameRef("h", TInt))>>, TInt)}

DstExprs == Leaves \cup ExprsAt(1) \cup PatternMatches

InitDestinations ==
    /\ gfunc \in DstFunctions
    /\ gexpr \in DstExprs
    /\ gtyp = expr_type(gexpr)
    /\ gpc = "input"
    /\ gout = <<>>
    /\ garm = 0
    /\ IdleResolve
    /\ IdleLower
    /\ IdleCheck
    /\ IdleTypes
    /\ IdleLet
    /\ IdleDebug
    /\ IdleValues
    /\ IdleImport

DstReturned(r, pc) ==
    /\ gout' = r
    /\ gpc' = IF r.f.panicked THEN "panic" ELSE pc

ApplyExprToLlrep ==
    /\ gpc = "input"
    /\ DstReturned(expr_to_llrep(gfunc, gexpr), "lowered")
    /\ UNCHANGED <<gfunc, gtyp, gexpr, garm, rvars, lvars, cvars, tvars, hvars, dvars, vvars, ivars>>

\* the lowering of the match up to the test of the pattern of one of its arms
EnterPatternTest ==
    /\ gpc = "input"
    /\ gexpr.e = "Match"
    /\ \E i \in DOMAIN gexpr.cases :
          /\ garm' = i
          /\ DstReturned(R(pattern_test_entry(
                                match_case_blocks(match_arm_entry(gfunc, gexpr, i)),
                                gexpr.cases[i], match_target(gfunc, gexpr).v),
                            match_target(gfunc, gexpr).v),
                         "pattern_test")
    /\ UNCHANGED <<gfunc, gtyp, gexpr, rvars, lvars, cvars, tvars, hvars, dvars, vvars, ivars>>

\* the test of the pattern and the body of the arm
LowerPatternTest ==
    /\ gpc = "pattern_test"
    /\ DstReturned(R(match_case_from_test(gout.f, gexpr.cases[garm], gout.v,
                                          gout.f.bb_counter - 2,
                                          match_target(gfunc, gexpr).f.bb_counter,
                                          gout.f.bb_counter - 1),
                     gout.v),
                   "arm_lowered")
    /\ UNCHANGED <<gfunc, gtyp, gexpr, garm, rvars, lvars, cvars, tvars, hvars, dvars, vvars, ivars>>

NextDestinations == ApplyExprToLlrep \/ EnterPatternTest \/ LowerPatternTest

SpecDestinations == InitDestinations /\ [][NextDestinations]_vars

-----------------------------------------------------------------------------
(* The debugger of the interpreter: src/src/interpreter/debugger.rs.        *)
(* Interpreter::step is given by the program: at every index it yields      *)
(* Continue(next index), Exit(value) or an error.                           *)

MaxInstructions == 3

Indexes == 0..(MaxInstructions - 1)

Continue(i) == [r |-> "Continue", index |-> i, value |-> 0]
Exit(v) == [r |-> "Exit", index |-> 0, value |-> v]
ExecutionError == [r |-> "Err", index |-> 0, value |-> 0]

StepResults == {Continue(i) : i \in Indexes} \cup {Exit(5), ExecutionError}

interpreter_step(prog, index) == prog[index]

\* what a command returns to the shell
ExecOk == "Ok"
ExecQuit == "Quit"

\* a step that leaves the index where it was
step_keeping_index(prog, index) ==
    [index |-> index,
     result |-> IF interpreter_step(prog, index).r = "Continue" THEN ExecOk ELSE ExecQuit,
     end |-> CASE interpreter_step(prog, index).r = "Continue" -> ""
               [] interpreter_step(prog, index).r = "Exit" -> "exit"
               [] OTHER -> "error"]

\* step (lines 86-107): the new index of the context, the result, and how the
\* program ended if it did
step(prog, index) ==
    CASE interpreter_step(prog, index).r = "Continue" ->
            [index |-> interpreter_step(prog, index).index, result |-> ExecOk, end |-> ""]
      [] interpreter_step(prog, index).r = "Exit" ->
            [index |-> index, result |-> ExecQuit, end |-> "exit"]
      [] OTHER ->
            [index |-> index, result |-> ExecQuit, end |-> "error"]

InitDebug ==
    /\ dprog \in [Indexes -> StepResults]
    /\ dindex = 0
    /\ dpc = "prompt"
    /\ dcmd = ""
    /\ dend = ""
    /\ IdleResolve
    /\ IdleLower
    /\ IdleCheck
    /\ IdleTypes
    /\ IdleLet
    /\ IdleDst
    /\ IdleValues
    /\ IdleImport

\* Shell::run_loop returns when a command returns ExecError::Quit
CommandReturned(result, end, pc) ==
    /\ dpc' = IF result = ExecQuit THEN "ended" ELSE pc
    /\ dend' = IF result = ExecQuit THEN end ELSE dend

\* help (lines 67-78)
Help ==
    /\ dpc = "prompt"
    /\ dcmd' = "help"
    /\ CommandReturned(ExecOk, "", "prompt")
    /\ UNCHANGED <<dprog, dindex, rvars, lvars, cvars, tvars, hvars, gvars, vvars, ivars>>

\* quit (lines 80-84)
Quit ==
    /\ dpc = "prompt"
    /\ dcmd' = "quit"
    /\ CommandReturned(ExecQuit, "quit", "prompt")
    /\ UNCHANGED <<dprog, dindex, rvars, lvars, cvars, tvars, hvars, gvars, vvars, ivars>>

\* the command step
Step ==
    /\ dpc = "prompt"
    /\ dcmd' = "step"
    /\ dindex' = step(dprog, dindex).index
    /\ CommandReturned(step(dprog, dindex).result, step(dprog, dindex).end, "prompt")
    /\ UNCHANGED <<dprog, rvars, lvars, cvars, tvars, hvars, gvars, vvars, ivars>>

\* print (lines 109-123): Ok whether the variable exists or not
PrintVariable ==
    /\ dpc = "prompt"
    /\ dcmd' = "print"
    /\ CommandReturned(ExecOk, "", "prompt")
    /\ UNCHANGED <<dprog, dindex, rvars, lvars, cvars, tvars, hvars, gvars, vvars, ivars>>

\* cont (lines 125-130): the command enters its loop
Cont ==
    /\ dpc = "prompt"
    /\ dcmd' = "cont"
    /\ dpc' = "cont"
    /\ UNCHANGED <<dprog, dindex, dend, rvars, lvars, cvars, tvars, hvars, gvars, vvars, ivars>>

\* one iteration of the loop of cont: step(io, dc)?
ContStep ==
    /\ dpc = "cont"
    /\ dindex' = step(dprog, dindex).index
    /\ CommandReturned(step(dprog, dindex).result, step(dprog, dindex).end, "cont")
    /\ UNCHANGED <<dprog, dcmd, rvars, lvars, cvars, tvars, hvars, gvars, vvars, ivars>>

NextDebug == Help \/ Quit \/ Step \/ PrintVariable \/ Cont \/ ContStep

SpecDebug == InitDebug /\ [][NextDebug]_vars

\* the loop of cont waits for nothing: its next iteration is taken
SpecDebugFair == SpecDebug /\ WF_dvars(ContStep)

-----------------------------------------------------------------------------
(* The interpreter's ValueRef: src/cobrac/src/interpreter/valueref.rs.      *)
(* Rc and Weak are those of the standard library: the value of an           *)
(* allocation is dropped when its strong count falls to zero, and           *)
(* Weak::upgrade yields the allocation exactly while the count is positive. *)

MaxHandles == 3
MaxCells == 2

Slots == 1..MaxHandles
Cells == 1..MaxCells
Values == {7, 8}

\* an allocation: the strong count, whether the value is live, and the value
Unallocated == [strong |-> 0, state |-> "unallocated", value |-> 0]
Dropped == [strong |-> 0, state |-> "dropped", value |-> 0]

ValueRef_Owner(c) == [k |-> "Owner", cell |-> c]
ValueRef_Ptr(c) == [k |-> "Ptr", cell |-> c]
ValueRef_Null == [k |-> "Null", cell |-> 0]
NoHandle == [k |-> "None", cell |-> 0]

ExecOkValue(v) == [ok |-> TRUE, value |-> v, msg |-> ""]
ExecErr(msg) == [ok |-> FALSE, value |-> 0, msg |-> msg]
OwnerGone == "Dangling pointer, owner of element pointed to is gone"
PointerDeleted == "Dangling pointer, pointer has been deleted"

Rc_new(cells, c, v) == [cells EXCEPT ![c] = [strong |-> 1, state |-> "live", value |-> v]]

Rc_clone(cells, c) == [cells EXCEPT ![c].strong = @ + 1]

Rc_drop(cells, c) ==
    IF cells[c].strong = 1
    THEN [cells EXCEPT ![c] = Dropped]
    ELSE [cells EXCEPT ![c].strong = @ - 1]

Weak_upgrade(cells, c) == cells[c].strong > 0

\* the handle derive(Clone) makes of a handle, and the allocations after it
ValueRef_clone(cells, h) ==
    IF h.k = "Owner" THEN [cells |-> Rc_clone(cells, h.cell), handle |-> h]
    ELSE [cells |-> cells, handle |-> h]

\* a to_ptr that clones the handle it is given
to_ptr_by_clone(cells, h) == ValueRef_clone(cells, h)

\* to_ptr (lines 40-47)
to_ptr(cells, h) ==
    IF h.k = "Owner"
    THEN [cells |-> cells, handle |-> ValueRef_Ptr(h.cell)]
    ELSE ValueRef_clone(cells, h)

\* dropping a handle: an Owner gives up its strong reference
ValueRef_drop(cells, h) ==
    IF h.k = "Owner" THEN Rc_drop(cells, h.cell) ELSE cells

\* apply (lines 49-68) with the operation |v| Ok(v.clone()), which is
\* clone_value (lines 22-38)
apply(cells, h) ==
    CASE h.k = "Owner" -> ExecOkValue(cells[h.cell].value)
      [] h.k = "Ptr" ->
            IF Weak_upgrade(cells, h.cell)
            THEN ExecOkValue(cells[h.cell].value)
            ELSE ExecErr(OwnerGone)
      [] OTHER -> ExecErr(PointerDeleted)

clone_value(cells, h) == apply(cells, h)

\* apply_mut (lines 70-89) with the operation |v| { *v = nv; Ok(nv) }
apply_mut(cells, h, nv) ==
    CASE h.k = "Owner" ->
            [cells |-> [cells EXCEPT ![h.cell].value = nv], result |-> ExecOkValue(nv)]
      [] h.k = "Ptr" ->
            IF Weak_upgrade(cells, h.cell)
            THEN [cells |-> [cells EXCEPT ![h.cell].value = nv], result |-> ExecOkValue(nv)]
            ELSE [cells |-> cells, result |-> ExecErr(OwnerGone)]
      [] OTHER -> [cells |-> cells, result |-> ExecErr(PointerDeleted)]

FreeSlots == {s \in Slots : vhandles[s] = NoHandle}
HeldSlots == Slots \ FreeSlots
FreeCells == {c \in Cells : vcells[c] = Unallocated}
FirstOf(S) == CHOOSE x \in S : \A y \in S : x <= y

Ran(op, s, result) == [op |-> op, slot |-> s, result |-> result]
NoResult == ExecErr("")

InitValues ==
    /\ vcells = [c \in Cells |-> Unallocated]
    /\ vhandles = [s \in Slots |-> NoHandle]
    /\ vlast = Ran("", 0, NoResult)
    /\ vpc = "running"
    /\ IdleResolve
    /\ IdleLower
    /\ IdleCheck
    /\ IdleTypes
    /\ IdleLet
    /\ IdleDst
    /\ IdleDebug
    /\ IdleImport

\* ValueRef::new (lines 17-20)
ValueRefNew ==
    /\ vpc = "running"
    /\ FreeSlots # {}
    /\ FreeCells # {}
    /\ \E v \in Values : vcells' = Rc_new(vcells, FirstOf(FreeCells), v)
    /\ vhandles' = [vhandles EXCEPT ![FirstOf(FreeSlots)] = ValueRef_Owner(FirstOf(FreeCells))]
    /\ vlast' = Ran("new", FirstOf(FreeSlots), NoResult)
    /\ UNCHANGED <<vpc, rvars, lvars, cvars, tvars, hvars, gvars, dvars, ivars>>

\* the variant ValueRef::Null (line 12)
ValueRefNull ==
    /\ vpc = "running"
    /\ FreeSlots # {}
    /\ vhandles' = [vhandles EXCEPT ![FirstOf(FreeSlots)] = ValueRef_Null]
    /\ vlast' = Ran("null", FirstOf(FreeSlots), NoResult)
    /\ UNCHANGED <<vcells, vpc, rvars, lvars, cvars, tvars, hvars, gvars, dvars, ivars>>

ValueRefClone ==
    /\ vpc = "running"
    /\ FreeSlots # {}
    /\ \E s \in HeldSlots :
          /\ vcells' = ValueRef_clone(vcells, vhandles[s]).cells
          /\ vhandles' = [vhandles EXCEPT ![FirstOf(FreeSlots)] =
                             ValueRef_clone(vcells, vhandles[s]).handle]
    /\ vlast' = Ran("clone", FirstOf(FreeSlots), NoResult)
    /\ UNCHANGED <<vpc, rvars, lvars, cvars, tvars, hvars, gvars, dvars, ivars>>

ValueRefToPtr ==
    /\ vpc = "running"
    /\ FreeSlots # {}
    /\ \E s \in HeldSlots :
          /\ vcells' = to_ptr(vcells, vhandles[s]).cells
          /\ vhandles' = [vhandles EXCEPT ![FirstOf(FreeSlots)] =
                             to_ptr(vcells, vhandles[s]).handle]
    /\ vlast' = Ran("to_ptr", FirstOf(FreeSlots), NoResult)
    /\ UNCHANGED <<vpc, rvars, lvars, cvars, tvars, hvars, gvars, dvars, ivars>>

ValueRefDrop ==
    /\ vpc = "running"
    /\ \E s \in HeldSlots :
          /\ vcells' = ValueRef_drop(vcells, vhandles[s])
          /\ vhandles' = [vhandles EXCEPT ![s] = NoHandle]
          /\ vlast' = Ran("drop", s, NoResult)
    /\ UNCHANGED <<vpc, rvars, lvars, cvars, tvars, hvars, gvars, dvars, ivars>>

ValueRefCloneValue ==
    /\ vpc = "running"
    /\ \E s \in HeldSlots : vlast' = Ran("clone_value", s, clone_value(vcells, vhandles[s]))
    /\ UNCHANGED <<vcells, vhandles, vpc, rvars, lvars, cvars, tvars, hvars, gvars, dvars, ivars>>

ValueRefApply ==
    /\ vpc = "running"
    /\ \E s \in HeldSlots : vlast' = Ran("apply", s, apply(vcells, vhandles[s]))
    /\ UNCHANGED <<vhandles, vcells, vpc, rvars, lvars, cvars, tvars, hvars, gvars, dvars, ivars>>

ValueRefApplyMut ==
    /\ vpc = "running"
    /\ \E s \in HeldSlots, nv \in Values :
          /\ vcells' = apply_mut(vcells, vhandles[s], nv).cells
          /\ vlast' = Ran("apply_mut", s, apply_mut(vcells, vhandles[s], nv).result)
    /\ UNCHANGED <<vhandles, vpc, rvars, lvars, cvars, tvars, hvars, gvars, dvars, ivars>>

NextValues ==
    \/ ValueRefNew
    \/ ValueRefNull
    \/ ValueRefClone
    \/ ValueRefToPtr
    \/ ValueRefDrop
    \/ ValueRefCloneValue
    \/ ValueRefApply
    \/ ValueRefApplyMut

SpecValues == InitValues /\ [][NextValues]_vars

-----------------------------------------------------------------------------
(* Import::resolve: src/src/ast/import.rs.                                  *)

ImportNamespaces == {"m", "n"}
SymbolKeys == {"f", "m::f", "g"}
ResolvedNames == {"f", "g", "m::f"}
SymbolTypes == {"int", "bool"}

Symbol_new(name, typ) == [name |-> name, typ |-> typ]

\* HashMap<String, Symbol>: the symbol tables over SymbolKeys
SymbolTables ==
    UNION {[keys -> {Symbol_new(k, t) : k \in SymbolKeys, t \in SymbolTypes}]
            : keys \in SUBSET SymbolKeys}

Imports ==
    [namespace : ImportNamespaces,
     symbols : {t \in SymbolTables : \A k \in DOMAIN t : t[k].name = k},
     imported_symbols : {t \in SymbolTables : \A k \in DOMAIN t : t[k].name = k}]

SomeSymbol(s) == [some |-> TRUE, symbol |-> s]
NoSymbol == [some |-> FALSE, symbol |-> <<>>]

\* HashMap::get
symbols_get(symbols, key) ==
    IF key \in DOMAIN symbols THEN SomeSymbol(symbols[key]) ELSE NoSymbol

\* format!("{}::{}", self.namespace, name)
namespaced(namespace, name) == namespace \o "::" \o name

\* the closure resolve (lines 95-105) applied to one table
resolve_in(symbols, namespace, name) ==
    IF symbols_get(symbols, name).some
    THEN symbols_get(symbols, name)
    ELSE symbols_get(symbols, namespaced(namespace, name))

\* a lookup that asks the imported symbols first
Import_resolve_imported_first(import, name, allow_imported_symbols) ==
    IF allow_imported_symbols /\ resolve_in(import.imported_symbols, import.namespace, name).some
    THEN resolve_in(import.imported_symbols, import.namespace, name)
    ELSE resolve_in(import.symbols, import.namespace, name)

\* Import::resolve (lines 93-114)
Import_resolve(import, name, allow_imported_symbols) ==
    IF resolve_in(import.symbols, import.namespace, name).some
    THEN resolve_in(import.symbols, import.namespace, name)
    ELSE IF allow_imported_symbols
         THEN resolve_in(import.imported_symbols, import.namespace, name)
         ELSE NoSymbol

InitImport ==
    /\ iimport \in Imports
    /\ iname \in ResolvedNames
    /\ iallow \in BOOLEAN
    /\ iresult = <<>>
    /\ ipc = "ready"
    /\ IdleResolve
    /\ IdleLower
    /\ IdleCheck
    /\ IdleTypes
    /\ IdleLet
    /\ IdleDst
    /\ IdleDebug
    /\ IdleValues

\* resolve takes &self: the Import is the same after the call
ApplyImportResolve ==
    /\ ipc = "ready"
    /\ iresult' = Import_resolve(iimport, iname, iallow)
    /\ ipc' = "resolved"
    /\ UNCHANGED <<iimport, iname, iallow, rvars, lvars, cvars, tvars, hvars, gvars, dvars, vvars>>

NextImport == ApplyImportResolve

SpecImport == InitImport /\ [][NextImport]_vars

-----------------------------------------------------------------------------
(* Properties of the type resolver *)

NumDecls == Cardinality(DOMAIN rmod.types)

\* the names a type mentions that the module rmod0 does not declare
RECURSIVE UndefinedNames(_)
UndefinedNames(t) ==
    CASE t.k = "Unresolved" -> {t.name} \ DOMAIN rmod0.types
      [] t.k = "Array" -> UndefinedNames(t.elem)
      [] OTHER -> {}

\* the member types of a declaration: a struct's members, a sum's payload members
DeclMemberTypes(d) ==
    IF d.kind = "Struct"
    THEN {d.members[i].typ : i \in DOMAIN d.members}
    ELSE UNION {IF d.cases[i].data = NoData THEN {}
                ELSE {d.cases[i].data.members[j].typ :
                        j \in DOMAIN d.cases[i].data.members}
                : i \in DOMAIN d.cases}

FunSigTypes(fun) ==
    {fun.sig.return_type} \cup {fun.sig.args[i].typ : i \in DOMAIN fun.sig.args}

FirstRunOk == rrun = 1 /\ rpc = "done" /\ rresult.ok

\* C7: after resolve_types returns Ok every type declaration has a type other
\* than Unknown, and no member type, payload type or signature type of a
\* non-generic function holds an Unresolved name, at the top or nested.
C7_NothingUnresolvedAfterOk ==
    FirstRunOk =>
        /\ \A n \in DOMAIN rmod.types :
              /\ rmod.types[n].typ # TUnknown
              /\ \A t \in DeclMemberTypes(rmod.types[n]) : ~ContainsUnresolved(t)
        /\ \A n \in DOMAIN rmod.functions :
              ~fun_is_generic(rmod.functions[n]) =>
                 \A t \in FunSigTypes(rmod.functions[n]) : ~ContainsUnresolved(t)

\* C8 (amended): a run of resolve_types makes at most one pass more than the
\* module has type declarations, at most one of them Forced, and it goes on to
\* a further Lazy pass only when the last pass resolved strictly more
\* declarations than the one before.
C8_PassesBounded ==
    /\ rpasses <= NumDecls + 1
    /\ rforced <= 1
    /\ (rpc = "loop" /\ rpasses > 0) => rnum > ralready

\* a run over two declarations that took three passes, the last one Forced
C8_StalledRunReached ==
    /\ rrun = 1
    /\ NumDecls = 2
    /\ rpasses = NumDecls + 1
    /\ rforced = 1
    /\ rpc = "done"

\* C8 as stated: the passes of a run never outnumber the type declarations.
C8_PassesAtMostDecls ==
    /\ rpasses <= NumDecls
    /\ (rpc = "loop" /\ rpasses > 0) => rnum > ralready

ModuleNamesUndefined ==
    \E n \in DOMAIN rmod0.types :
        \E t \in DeclMemberTypes(rmod0.types[n]) : UndefinedNames(t) # {}

\* C9: when a member or payload names a type nothing defines, the Lazy passes
\* report no error, one Forced pass is run and resolve_types ends with
\* UnknownName; resolve_types never ends Ok with a declaration left unresolved.
C9_UndefinedNameReported ==
    /\ (rrun = 1 /\ ModuleNamesUndefined /\ rforced = 0) => rresult.ok
    /\ (rrun = 1 /\ ModuleNamesUndefined /\ rpc = "done") =>
          /\ rforced = 1
          /\ ~rresult.ok
          /\ rresult.code = "UnknownName"
    /\ FirstRunOk => \A n \in DOMAIN rmod.types : rmod.types[n].typ # TUnknown

\* C10: resolve_types run on the module it resolved, with a new context, ends
\* Ok, leaves the module as it was and fills the context with the same names.
C10_SecondRunIsNoOp ==
    (rrun = 2 /\ rpc = "done") =>
        /\ rresult.ok
        /\ rmod = rfirst.mod
        /\ ctx_names(rctx) = ctx_names(rfirst.ctx)

CaseNames(d) == [i \in DOMAIN d.cases |-> d.cases[i].name]

NoPayload(d) == \A i \in DOMAIN d.cases : d.cases[i].data = NoData

\* C11: a resolved sum declaration has an Enum type exactly when none of its
\* cases has a payload; the enum lists the case names in declaration order and
\* the symbol table maps the declared name to the type and case i to the enum
\* with index i; a sum with a payload has a Sum type with the cases in order,
\* Int for each case without payload, and its name and case names are in the
\* symbol table.
C11_SumResolvedAsEnumOrSum ==
    rrun = 1 =>
        \A n \in DOMAIN rmod.types :
            (rmod.types[n].kind = "Sum" /\ rmod.types[n].typ # TUnknown) =>
                /\ rmod.types[n].typ.k \in {"Enum", "Sum"}
                /\ rmod.types[n].typ.k = "Enum" <=> NoPayload(rmod.types[n])
                /\ ctx_resolve_type(rctx, n) = rmod.types[n].typ
                /\ rmod.types[n].typ.k = "Enum" =>
                      /\ rmod.types[n].typ.cases = CaseNames(rmod.types[n])
                      /\ \A i \in DOMAIN rmod.types[n].cases :
                            ctx_resolve_type(rctx, rmod.types[n].cases[i].name)
                                = enum_type(CaseNames(rmod.types[n]), i - 1)
                /\ rmod.types[n].typ.k = "Sum" =>
                      /\ DOMAIN rmod.types[n].typ.cases = DOMAIN rmod.types[n].cases
                      /\ \A i \in DOMAIN rmod.types[n].cases :
                            /\ rmod.types[n].typ.cases[i].name = rmod.types[n].cases[i].name
                            /\ rmod.types[n].typ.cases[i].typ =
                                  IF rmod.types[n].cases[i].data = NoData THEN TInt
                                  ELSE rmod.types[n].cases[i].data.typ
                            /\ rmod.types[n].cases[i].name \in ctx_names(rctx)

\* a run that ended Ok on a module with an enum and a sum with one payload
C11_EnumAndSumResolved ==
    /\ FirstRunOk
    /\ \E n \in DOMAIN rmod.types : rmod.types[n].typ.k = "Enum"
    /\ \E n \in DOMAIN rmod.types :
          /\ rmod.types[n].typ.k = "Sum"
          /\ \E i, j \in DOMAIN rmod.types[n].cases :
                /\ rmod.types[n].cases[i].data = NoData
                /\ rmod.types[n].cases[j].data # NoData

-----------------------------------------------------------------------------
(* Properties of the lowering *)

Compiled == lpc \in {"lowered", "walking", "returned"}

Walked == lpc \in {"walking", "returned"}

\* one terminator, and it is the last instruction of the block
BlockTerminated(is) ==
    /\ is # <<>>
    /\ IsTerminator(is[Len(is)])
    /\ \A i \in 1..(Len(is) - 1) : ~IsTerminator(is[i])

WellTerminated(f) == \A bb \in DOMAIN f.blocks : BlockTerminated(f.blocks[bb])

IsExternal(f) == f.sig.name \in DOMAIN lmd.externals

\* C2 as stated: every basic block of every LLFunction of the module, external
\* declarations included, ends with exactly one terminator and has none before.
C2_EveryBlockTerminated ==
    Compiled => \A f \in AllLLFunctions(lmod.functions) : WellTerminated(f)

\* C2 (amended): every basic block of every LLFunction that func_to_llrep built,
\* functions and lambdas, ends with exactly one terminator and has none before;
\* the LLFunction of an external declaration is a single empty entry block.
C2_LoweredBlocksTerminated ==
    Compiled =>
        \A f \in AllLLFunctions(lmod.functions) :
            IF IsExternal(f)
            THEN f.blocks = (0 :> <<>>) /\ f.block_order = <<0>>
            ELSE WellTerminated(f)

\* a module with external declarations and a function with a match nested in a
\* match arm
C2_NestedMatchLowered ==
    /\ lpc = "lowered"
    /\ \E f \in AllLLFunctions(lmod.functions) :
          /\ ~IsExternal(f)
          /\ Cardinality(DOMAIN f.blocks) >= 11
          /\ WellTerminated(f)
    /\ \E f \in AllLLFunctions(lmod.functions) : IsExternal(f)

HeapSetsOf(v) ==
    {i \in DOMAIN wtrace :
        /\ wtrace[i].op = "Set"
        /\ wtrace[i].var = v
        /\ \/ wtrace[i].expr.x = "HeapAlloc"
           \/ wtrace[i].expr.x = "Call" /\ allocate_on_heap(v.typ)}

DecRefsOf(v) == {i \in DOMAIN wtrace : wtrace[i].op = "DecRef" /\ wtrace[i].var = v}

SetsOf(v) == {i \in DOMAIN wtrace : wtrace[i].op = "Set" /\ wtrace[i].var = v}

TraceVars == {wtrace[i].var : i \in {j \in DOMAIN wtrace : wtrace[j].op \in {"Set", "DecRef"}}}

LastInstruction == wtrace[Len(wtrace)]

\* C3: on every path no variable is DecRef'd twice, and at the Return every
\* variable that received a heap value on the path, other than the returned
\* one, has been DecRef'd exactly once.
C3_ExactlyOneDecRef ==
    /\ Walked => \A v \in TraceVars : Cardinality(DecRefsOf(v)) <= 1
    /\ lpc = "returned" =>
          \A v \in TraceVars \ {LastInstruction.var} :
              HeapSetsOf(v) # {} => Cardinality(DecRefsOf(v)) = 1

\* C4: when a DecRef(v) is executed, the path has executed exactly one
\* Set(v, HeapAlloc) or Set(v, Call) of a heap type before it.
C4_DecRefAfterOneAllocation ==
    (Walked /\ wtrace # <<>> /\ LastInstruction.op = "DecRef") =>
        Cardinality(HeapSetsOf(LastInstruction.var)) = 1

NumberOf(op) == Cardinality({i \in DOMAIN wtrace : wtrace[i].op = op})

\* C5: on every path the EndScopes executed never outnumber the StartScopes,
\* and at the Return there are as many of the one as of the other.
C5_ScopesBalanced ==
    /\ Walked => NumberOf("EndScope") <= NumberOf("StartScope")
    /\ lpc = "returned" => NumberOf("EndScope") = NumberOf("StartScope")

\* a path to a Return through two nested scopes
C5_NestedScopesReturned ==
    /\ lpc = "returned"
    /\ NumberOf("StartScope") >= 2
    /\ \E i, j \in DOMAIN wtrace :
          /\ i < j
          /\ wtrace[i].op = "StartScope" /\ wtrace[j].op = "StartScope"
          /\ \A k \in i..j : wtrace[k].op # "EndScope"

\* the variables DecRef'd by the cleanup that immediately precedes the Return
FinalCleanup ==
    {wtrace[i].var :
        i \in {j \in 1..(Len(wtrace) - 1) :
                 \A k \in j..(Len(wtrace) - 1) : wtrace[k].op = "DecRef"}}

DecRefAfterLastWrite(v) ==
    \E i \in DecRefsOf(v) : \A j \in SetsOf(v) : j < i

\* C6: a returned variable of a heap type is not DecRef'd between its last write
\* and the Return, and every other DecRef target that the function scope held
\* when the body was lowered is DecRef'd by the cleanup before the Return.
C6_ResultMovedOut ==
    lpc = "returned" =>
        /\ allocate_on_heap(LastInstruction.var.typ) =>
              ~DecRefAfterLastWrite(LastInstruction.var)
        /\ \A t \in Range(ltargets[wfn.sig.name]) \ {LastInstruction.var} :
              t \in FinalCleanup

\* a function returned a heap variable that was a DecRef target of the function
\* scope, next to another target
C6_HeapResultReturned ==
    /\ lpc = "returned"
    /\ allocate_on_heap(LastInstruction.var.typ)
    /\ LastInstruction.var \in Range(ltargets[wfn.sig.name])
    /\ Range(ltargets[wfn.sig.name]) \ {LastInstruction.var} # {}

\* the walked function was lowered by func_to_llrep; an external has no body
WalkedFunctionHasBody == lpc = "returned" /\ wfn.sig.name \in DOMAIN ltargets

\* the block that holds the Return of the walked function
ReturnBlock == wfn.blocks[wfn.current_bb]

\* the DecRef targets the function scope holds when the Return is added: those
\* it held when the body was lowered, without the variable that is returned
TargetsAtReturn ==
    SelectSeq(ltargets[wfn.sig.name],
              LAMBDA t : t # ReturnBlock[Len(ReturnBlock)].var)

\* the positions <<block, index>> of the instructions op of f
InstructionsOf(f, op) ==
    UNION {{<<b, k>> : k \in {j \in DOMAIN f.blocks[b] : f.blocks[b][j].op = op}} :
              b \in DOMAIN f.blocks}

\* C27: the Return added at the end of a function is the last instruction of
\* its block and the only Return; the DecRefs of the function scope's targets
\* precede it, in reverse order of registration; no EndScope is emitted for
\* the function scope; and the scope stack is empty afterwards.
C27_ReturnPopsFunctionScope ==
    WalkedFunctionHasBody =>
        /\ wfn.scopes = <<>>
        /\ ReturnBlock # <<>>
        /\ InstructionsOf(wfn, "Return") = {<<wfn.current_bb, Len(ReturnBlock)>>}
        /\ Len(TargetsAtReturn) < Len(ReturnBlock)
        /\ \A j \in DOMAIN TargetsAtReturn :
              ReturnBlock[Len(ReturnBlock) - j] = DecRef(TargetsAtReturn[j])
        /\ Cardinality(InstructionsOf(wfn, "EndScope"))
              = Cardinality(InstructionsOf(wfn, "StartScope"))

\* the Return was walked in a function whose scope held two different targets
\* besides the returned variable
C27_TwoTargetsCleanedUp ==
    /\ WalkedFunctionHasBody
    /\ Len(TargetsAtReturn) >= 2
    /\ TargetsAtReturn[1] # TargetsAtReturn[2]

-----------------------------------------------------------------------------
(* Properties of the type checker *)

\* the typ of every node of an expression that has one; literals have none
RECURSIVE TypsIn(_)
TypsIn(x) ==
    CASE x.e = "Literal" -> {}
      [] x.e = "NameRef" -> {x.typ}
      [] x.e = "UnaryOp" -> {x.typ} \cup TypsIn(x.expression)
      [] x.e = "BinaryOp" -> {x.typ} \cup TypsIn(x.left) \cup TypsIn(x.right)
      [] x.e = "Let" ->
            {x.typ} \cup {x.bindings[i].typ : i \in DOMAIN x.bindings}
            \cup UNION {TypsIn(x.bindings[i].init) : i \in DOMAIN x.bindings}
            \cup TypsIn(x.expression)
      [] x.e = "If" ->
            {x.typ} \cup TypsIn(x.condition) \cup TypsIn(x.on_true) \cup TypsIn(x.on_false)
      [] x.e = "Block" ->
            {x.typ} \cup UNION {TypsIn(x.expressions[i]) : i \in DOMAIN x.expressions}

CheckedOk == cpc = "done" /\ cresult.ok

\* C1: after type_check_module returns Ok, no expression node in the body of a
\* non-generic function has typ Unknown, Unresolved or Generic.
C1_NoUntypedNodeAfterOk ==
    CheckedOk =>
        \A n \in DOMAIN cmod.functions :
            ~fun_is_generic(cmod.functions[n]) =>
                \A t \in TypsIn(cmod.functions[n].expression) :
                    t.k \notin {"Unknown", "Unresolved", "Generic"}

\* C17: when type_check_expression returns Ok(T) for a unary or binary
\* operation, an if, a let, a match or a block, the typ field of that node is T.
\* Stated for the body of every function that type_check_function accepted:
\* the type returned for the body is then the declared return type.
C17_NodeTypIsReturnedType ==
    \A n \in DOMAIN cmod.functions :
        (/\ cmod.functions[n].type_checked
         /\ cmod.functions[n].expression.e \in
                {"UnaryOp", "BinaryOp", "If", "Let", "Match", "Block"}) =>
            cmod.functions[n].expression.typ = cmod.functions[n].sig.return_type

-----------------------------------------------------------------------------
(* Properties of the functions on types *)

\* the two types differ in their constructor, or in the number of arguments,
\* members or cases
ShapeMismatch(c, g) ==
    \/ g.k # "Generic" /\ c.k # g.k
    \/ c.k = "Func" /\ g.k = "Func" /\ Len(c.args) # Len(g.args)
    \/ c.k = "Struct" /\ g.k = "Struct" /\ Len(c.members) # Len(g.members)
    \/ c.k = "Sum" /\ g.k = "Sum" /\ Len(c.cases) # Len(g.cases)

\* C12: is_instantiation_of(c, g) is true when c equals g and g is not generic,
\* and false when c and g differ in their constructor or in the number of
\* arguments, members or cases.
C12_InstantiationRejectsMismatch ==
    tpc = "is_instantiation_of" =>
        /\ (tself = tother /\ ~is_generic(tother)) => tout = TRUE
        /\ ShapeMismatch(tself, tother) => tout = FALSE

\* the pairs of types for which spec.md 4.2 lists a conversion
ListedConversion(from_type, to) ==
    \/ from_type.k = "Array" /\ to.k = "Slice" /\ from_type.elem = to.elem
    \/ to = optional_type(from_type)
    \/ from_type.k = "Optional" /\ to = TBool
    \/ from_type = optional_type(TUnknown) /\ to.k = "Optional"
    \/ from_type.k = "Pointer" /\ to = ptr_type(TVoid)
    \/ from_type = ptr_type(TVoid) /\ to.k = "Pointer"
    \/ from_type.k = "Pointer" /\ to = TBool
    \/ to = TVoid

\* the parameter type of the call after substitution of the generic arguments
ExpectedArgType == substitute(tout.r.e.generic_args, tother)

\* the conversion node that the call has in place of its argument
ConvertedArgument ==
    /\ tout.r.err.ok
    /\ tout.r.e.args[1].e \in {"ArrayToSlice", "ToOptional", "OptionalToBool", "Nil",
                               "TypeCast", "Block"}
    /\ tout.r.e.args[1] # tout.arg

\* a call that fails with a Type error and keeps its argument
RejectedArgument ==
    /\ tout.r.err = type_error
    /\ tout.r.e.args[1].e = tout.arg.e
    /\ tout.r.e.args[1].e \notin {"ArrayToSlice", "ToOptional", "OptionalToBool",
                                  "Nil", "TypeCast"}

\* C14: for an argument whose type differs from the parameter type,
\* Type::convert gives a conversion exactly for the listed pairs of types, and
\* type_check_call puts the conversion in place of the argument for these
\* pairs and fails with a Type error, the argument unchanged, for all others.
C14_ArgumentConvertedOrRejected ==
    /\ (tpc = "convert" /\ tself # tother) =>
          (tout # NoExpr <=> ListedConversion(tself, tother))
    /\ (tpc = "type_check_call" /\ ~is_generic(tother) /\ ~is_generic(tself)
        /\ tself # TUnknown /\ tself # tother) =>
          IF ListedConversion(tself, tother) THEN ConvertedArgument
          ELSE RejectedArgument

\* C15: a call that passes a name of type X to a parameter of type Optional(X),
\* or a name of an Array type to a Slice parameter of the same element type,
\* is accepted, with the ToOptional or ArrayToSlice conversion in place of the
\* argument. Stated for the types X without type variables.
C15_NameArgumentConverted ==
    (/\ tpc = "type_check_call"
     /\ tout.arg.e = "NameRef"
     /\ tself # TUnknown
     /\ ~is_generic(tself)
     /\ \/ tother = optional_type(tself)
        \/ tself.k = "Array" /\ tother = slice_type(tself.elem)) =>
        /\ tout.r.err.ok
        /\ tout.r.e.args[1].e = IF tother.k = "Slice" THEN "ArrayToSlice" ELSE "ToOptional"
        /\ tout.r.e.args[1].inner.e = "NameRef"

-----------------------------------------------------------------------------
(* Properties of type_check_module on programs with calls *)

\* f(x: ?int) -> bool = x;  main() -> bool = f(3)
OptionalProgram ==
    CallModule(
        ParsedFunction(FunctionSignature("f", <<Argument("x", optional_type(TInt))>>, TBool),
                       NameRef("x", TUnknown)),
        ParsedFunction(FunctionSignature("main", <<>>, TBool),
                       ParsedCall("f", <<IntLit(3)>>)))

\* C16: the program f(x: ?int) -> bool = x; main() -> bool = f(3) is accepted
\* by the type checker, with the argument 3 wrapped in a conversion of Int to
\* Optional(Int) and the body x of f accepted for the return type bool.
C16_OptionalProgramAccepted ==
    (cin = OptionalProgram /\ cpc = "done") =>
        /\ cresult.ok
        /\ cmod.functions["main"].expression.args[1] =
              to_optional(IntLit(3), optional_type(TInt))
        /\ cmod.functions["f"].type_checked

-----------------------------------------------------------------------------
(* Properties of type_check_let *)

\* the body error that type_check_let answers with a retry
NamesBinding(err) ==
    /\ ~err.ok
    /\ err.code = "UnknownType"
    /\ \E i \in DOMAIN hin.l.bindings : hin.l.bindings[i].name = err.name

RetriedBinding == binding_named(hin.l.bindings, hlog[1].err.name)

\* C13: type_check_let checks the body once; when that fails with
\* UnknownType(name, expected) and name is a binding of the let, the initializer
\* of that binding is checked again with expected as hint, the type of the
\* binding in scope is updated, and the body is checked exactly once more, the
\* error of either check being the error returned; any other failure of the
\* body is returned unchanged and nothing is checked again.
C13_LetRetriesOnce ==
    /\ Len(hlog) <= 3
    /\ \A k \in DOMAIN hlog :
          /\ hlog[k].call = "body" <=> k = 1
          /\ hlog[k].call = "retry_binding" <=> k = 2
          /\ hlog[k].call = "retry_body" <=> k = 3
    /\ Len(hlog) >= 2 => NamesBinding(hlog[1].err)
    /\ Len(hlog) = 3 => hlog[2].err.ok
    /\ hpc = "retry_body" =>
          /\ hlog[2].call = "retry_binding"
          /\ ctx_resolve_type(hctx, hlog[1].err.name) = hlog[2].typ
          /\ hlet.bindings[RetriedBinding].typ = hlog[2].typ
    /\ (hpc = "done" /\ hlog # <<>>) =>
          IF NamesBinding(hlog[1].err)
          THEN IF hlog[2].err.ok
               THEN Len(hlog) = 3 /\ hresult.err = hlog[3].err
               ELSE Len(hlog) = 2 /\ hresult.err = hlog[2].err
          ELSE Len(hlog) = 1 /\ hresult.err = hlog[1].err
    /\ hpc = "done" => hresult = type_check_let(hin.ctx, hin.l)

\* a let whose body failed on a binding of unknown type and was accepted
\* after the retry
C13_RetrySucceeded ==
    /\ hpc = "done"
    /\ Len(hlog) = 3
    /\ NamesBinding(hlog[1].err)
    /\ hresult.err.ok
    /\ hresult.typ = TInt

-----------------------------------------------------------------------------
(* Properties of type_check_match *)

MatchChecked == tpc = "type_check_match" /\ tout.r.err.ok

\* the type a checked arm body holds
ArmBodyType(x) ==
    CASE x.e = "Literal" -> IF x.lit.l = "Int" THEN TInt ELSE TBool
      [] x.e = "NameRef" -> x.typ
      [] x.e = "Lambda" -> x.sig.typ

CheckedArms == tout.r.e.cases

\* C18: type_check_match succeeds only if all arm bodies have one common type,
\* which it records as the type of the match (arm bodies of different types
\* give a Type error), and the recorded type of a checked match is not Unknown.
C18_MatchArmsHaveCommonType ==
    MatchChecked =>
        /\ \A i \in DOMAIN CheckedArms :
              ArmBodyType(CheckedArms[i].to_execute) = tout.r.e.typ
        /\ tout.r.typ = tout.r.e.typ
        /\ tout.r.e.typ # TUnknown

\* C19: with an Array{head, tail} pattern and a target of sequence type T, the
\* arm body sees head with the element type of T and tail with the type T; a
\* target that is not a sequence gives a Type error.
C19_ArrayPatternBindsHeadAndTail ==
    tpc = "type_check_match" =>
        /\ (tout.m.cases[1].pattern.p = "Array" /\ ~is_sequence(tself)) =>
              tout.r.err = type_error
        /\ tout.r.err.ok =>
              \A i \in DOMAIN CheckedArms :
                  CheckedArms[i].pattern.p = "Array" =>
                      /\ is_sequence(tself)
                      /\ CheckedArms[i].to_execute.e = "NameRef" =>
                            CASE CheckedArms[i].to_execute.name = "h" ->
                                    CheckedArms[i].to_execute.typ = get_element_type(tself)
                              [] CheckedArms[i].to_execute.name = "t" ->
                                    CheckedArms[i].to_execute.typ = tself
                              [] OTHER -> TRUE

-----------------------------------------------------------------------------
(* Properties of get_dst *)

TopDestination ==
    IF gfunc.destinations = <<>> THEN None
    ELSE gfunc.destinations[Len(gfunc.destinations)]

\* the variable is a temporary of type gtyp that get_dst has just allocated
FreshTemporary(r) ==
    /\ ~r.f.panicked
    /\ r.v.typ = gtyp
    /\ r.v.name \notin DOMAIN gfunc.scopes[Len(gfunc.scopes)].named_vars
    /\ r.v.name \in DOMAIN r.f.scopes[Len(r.f.scopes)].named_vars
    /\ r.f.blocks[r.f.current_bb] = Append(gfunc.blocks[gfunc.current_bb], Alloc(r.v))
    /\ r.f.destinations = gfunc.destinations

\* C21: get_dst(T) returns the destination on top of the stack when there is
\* one and its type is T; with no destination, or with a destination of
\* another type, it allocates and returns a fresh temporary of type T and does
\* not fail.
C21_DestinationOrFreshTemporary ==
    (gpc = "get_dst" /\ gtyp # TUnknown) =>
        IF TopDestination.some /\ TopDestination.var.typ = gtyp
        THEN gout = R(gfunc, TopDestination.var)
        ELSE FreshTemporary(gout)

-----------------------------------------------------------------------------
(* Properties of the lowering of a match *)

MatchPathWalked == lpc = "returned"

LoweredMatch == lmd.functions["f"].expression

IsIntLiteralSet(inst) ==
    inst.op = "Set" /\ inst.expr.x = "Literal" /\ inst.expr.lit.l = "Int"

\* the instruction loads the literal of a literal pattern of the match
IsPatternTest(inst) == IsIntLiteralSet(inst) /\ inst.expr.lit.v \in 1..MaxArms

\* the instruction is the one that yields the value of an arm body
IsMarker(inst) ==
    IsIntLiteralSet(inst) /\ inst.expr.lit.v \in MarkerOf(1)..MarkerOf(MaxArms)

\* the instruction computes the target a + 7
IsTargetEvaluation(inst) ==
    inst.op = "Set" /\ inst.expr.x = "BinaryOp" /\ inst.expr.operator = "Add"
    /\ inst.expr.left = LLVar_named("a", TInt)

IsTransfer(inst) == inst.op \in {"Branch", "BranchIf"}

\* the literals the path compared the target with, in the order of the path
TestedLiterals ==
    [j \in 1..Len(SelectSeq(wtrace, IsPatternTest)) |->
        SelectSeq(wtrace, IsPatternTest)[j].expr.lit.v]

\* the arms whose body the path ran
ArmsRun ==
    [j \in 1..Len(SelectSeq(wtrace, IsMarker)) |->
        SelectSeq(wtrace, IsMarker)[j].expr.lit.v - MarkerOf(0)]

\* the arms 1..k were tested in this order, a wildcard arm k without a test
TestedUpTo(k) ==
    /\ \A j \in 1..(k - 1) : LoweredMatch.cases[j].pattern.p = "Literal"
    /\ TestedLiterals =
          [j \in 1..(IF k <= Len(LoweredMatch.cases)
                        /\ LoweredMatch.cases[k].pattern.p = "Literal"
                     THEN k ELSE k - 1) |-> j]

\* the blocks the terminator of block b leads to
Successors(f, b) ==
    IF f.blocks[b] = <<>> THEN <<>>
    ELSE CASE f.blocks[b][Len(f.blocks[b])].op = "Branch" ->
                <<f.blocks[b][Len(f.blocks[b])].bb>>
           [] f.blocks[b][Len(f.blocks[b])].op = "BranchIf" ->
                <<f.blocks[b][Len(f.blocks[b])].on_true,
                  f.blocks[b][Len(f.blocks[b])].on_false>>
           [] OTHER -> <<>>

\* the number of edges of the control-flow graph that lead to block b
IncomingEdges(f, b) ==
    Cardinality({<<c, i>> \in (DOMAIN f.blocks) \X {1, 2} :
                    i \in DOMAIN Successors(f, c) /\ Successors(f, c)[i] = b})

\* C22: a lowered match evaluates its target once, before any pattern test;
\* the arms are tested in source order, the test of the next arm being reached
\* only through the false edge of the test before it, so that the body of the
\* first matching arm runs; every arm body, and the fall-through after the last
\* arm, ends with a Branch to the one block at the end of the match.
C22_MatchTestsArmsInSourceOrder ==
    /\ lpc \in {"walking", "returned"} =>
          \A b \in DOMAIN wfn.blocks :
              Len(Successors(wfn, b)) = 2 =>
                  /\ IncomingEdges(wfn, Successors(wfn, b)[1]) = 1
                  /\ IncomingEdges(wfn, Successors(wfn, b)[2]) = 1
    /\ MatchPathWalked =>
          /\ LoweredMatch.target.e = "BinaryOp" =>
                \E p \in DOMAIN wtrace :
                    /\ IsTargetEvaluation(wtrace[p])
                    /\ \A q \in DOMAIN wtrace :
                          /\ IsTargetEvaluation(wtrace[q]) => q = p
                          /\ (IsTransfer(wtrace[q]) \/ IsPatternTest(wtrace[q])) => p < q
          /\ Len(ArmsRun) <= 1
          /\ LoweredMatch.target # ArgXs =>
                TestedUpTo(IF ArmsRun = <<>> THEN Len(LoweredMatch.cases) + 1
                           ELSE ArmsRun[1])
          /\ \E p \in DOMAIN wtrace :
                /\ wtrace[p] = Branch(wbb)
                /\ \A q \in DOMAIN wtrace :
                      /\ IsMarker(wtrace[q]) => q < p
                      /\ q > p => wtrace[q].op \in {"EndScope", "DecRef", "Return"}

\* a path on which the first arm's test failed and the second arm's body ran
C22_SecondArmRun ==
    /\ MatchPathWalked
    /\ LoweredMatch.target.e = "BinaryOp"
    /\ TestedLiterals = <<1, 2>>
    /\ ArmsRun = <<2>>

\* the instruction extracts the head or the tail of a sequence, or binds a name
IsArrayExtraction(inst) ==
    \/ inst.op = "Set" /\ inst.expr.x \in {"ArrayHead", "ArrayTail"}
    \/ inst.op = "Bind"

\* block b is the block a BranchIf enters when its condition holds
IsCaseBlock(f, b) ==
    \E c \in DOMAIN f.blocks : Len(Successors(f, c)) = 2 /\ Successors(f, c)[1] = b

\* C25: the ArrayHead and ArrayTail extractions of a head/tail pattern, and the
\* Bind instructions of its two names, are in the case block of the arm, the
\* block entered when the test of the length against 0 succeeded.
C25_HeadAndTailExtractedInCaseBlock ==
    lpc \in {"walking", "returned"} =>
        \A b \in DOMAIN wfn.blocks :
            \A k \in DOMAIN wfn.blocks[b] :
                IsArrayExtraction(wfn.blocks[b][k]) => IsCaseBlock(wfn, b)

-----------------------------------------------------------------------------
(* Properties of the destination stack *)

\* the destination on top of the stack of f: Some(var), or None also for an
\* empty stack
TopOf(f) == IF f.destinations = <<>> THEN None ELSE f.destinations[Len(f.destinations)]

\* the instructions of f that write a value into v
WritesTo(f, v) ==
    UNION {{<<b, k>> : k \in {j \in DOMAIN f.blocks[b] :
                                /\ f.blocks[b][j].op = "Set"
                                /\ f.blocks[b][j].var = v
                                /\ f.blocks[b][j].expr.x # "HeapAlloc"}} :
              b \in DOMAIN f.blocks}

\* the number of instructions that write the value of x into the destination
\* x is lowered with: one for each expression that can yield the value of x
RECURSIVE ResultWrites(_)
RECURSIVE CasesResultWrites(_, _)
CasesResultWrites(cases, i) ==
    IF i > Len(cases) THEN 0
    ELSE ResultWrites(cases[i].to_execute) + CasesResultWrites(cases, i + 1)

ResultWrites(x) ==
    CASE x.e = "Let" -> ResultWrites(x.expression)
      [] x.e = "Block" ->
            IF x.expressions = <<>> THEN 0
            ELSE ResultWrites(x.expressions[Len(x.expressions)])
      [] x.e = "Match" -> CasesResultWrites(x.cases, 1)
      [] x.e = "If" -> ResultWrites(x.on_true) + ResultWrites(x.on_false)
      [] OTHER -> 1

DstVars == {e.var : e \in DstEntries \ {None}}

\* after expr_to_llrep the destination stack is the one before the call; only
\* the expressions that yield the value wrote into the destination on top,
\* and with None on top no destination of the stack was written
ExpressionKeepsDestinations ==
    gpc = "lowered" =>
        /\ gout.f.destinations = gfunc.destinations
        /\ TopOf(gfunc).some =>
              /\ gout.v = TopOf(gfunc).var
              /\ Cardinality(WritesTo(gout.f, TopOf(gfunc).var)) = ResultWrites(gexpr)
        /\ ~TopOf(gfunc).some =>
              \A v \in DstVars : WritesTo(gout.f, v) = {}

\* after an arm the destination stack is the one of the match: the destination
\* of the match on top of the stack expr_to_llrep was called with
ArmKeepsDestinations ==
    gpc = "arm_lowered" =>
        /\ Len(gout.f.destinations) = Len(gfunc.destinations) + 1
        /\ SubSeq(gout.f.destinations, 1, Len(gfunc.destinations)) = gfunc.destinations
        /\ TopOf(gout.f).some
        /\ TopOf(gout.f).var.typ = gtyp

TestedPattern == gexpr.cases[garm].pattern.p

\* C30 as stated: the destination stack is balanced, and every pattern test is
\* lowered with None on top of the destination stack.
C30_PatternTestsLoweredWithNone ==
    /\ ExpressionKeepsDestinations
    /\ ArmKeepsDestinations
    /\ (gpc = "pattern_test" /\ TestedPattern # "Any") => TopOf(gout.f) = None

\* C30, amended: the destination stack is balanced after expr_to_llrep and
\* after every arm of a match; call arguments, operands, match targets, pattern
\* tests and non-final block expressions write nothing into the caller's
\* destination; the tests of literal, empty-array and head/tail patterns are
\* lowered with None on top, the test of a name pattern with the destination
\* of the match on top.
C30_DestinationStackBalanced ==
    /\ ExpressionKeepsDestinations
    /\ ArmKeepsDestinations
    /\ gpc = "pattern_test" =>
          /\ TestedPattern \in {"Literal", "EmptyArray", "Array"} =>
                TopOf(gout.f) = None
          /\ TestedPattern \in {"Name", "Any"} =>
                /\ TopOf(gout.f).some
                /\ TopOf(gout.f).var.typ = gtyp

\* a match on an enum was lowered into a destination, its name pattern tested
C30_NamePatternLowered ==
    /\ gpc = "lowered"
    /\ TopOf(gfunc).some
    /\ gexpr.e = "Match"
    /\ gexpr.cases[1].pattern.p = "Name"
    /\ gexpr.target.typ.k = "Enum"

-----------------------------------------------------------------------------
(* Properties of the debugger *)

\* the steps from index i on reach an Exit or an error within n steps
RECURSIVE ProgramEnds(_, _)
ProgramEnds(i, n) ==
    \/ dprog[i].r # "Continue"
    \/ n > 0 /\ ProgramEnds(dprog[i].index, n - 1)

\* the command that is run in this step of the session
Runs(cmd) == dpc = "prompt" /\ dpc' # "idle" /\ dcmd' = cmd /\ dvars' # dvars

RunsStep == Runs("step") \/ (dpc = "cont" /\ dvars' # dvars)

DebuggerSteps ==
    /\ Runs("quit") => dpc' = "ended" /\ dend' = "quit" /\ dindex' = dindex
    /\ RunsStep =>
          /\ dprog[dindex].r = "Continue" =>
                dindex' = dprog[dindex].index /\ dpc' = dpc
          /\ dprog[dindex].r = "Exit" => dpc' = "ended" /\ dend' = "exit"
          /\ dprog[dindex].r = "Err" => dpc' = "ended" /\ dend' = "error"
    /\ Runs("cont") => dpc' = "cont" /\ dindex' = dindex
    /\ (Runs("help") \/ Runs("print")) => dpc' = "prompt" /\ dindex' = dindex
    /\ dpc = "ended" => dvars' = dvars
    /\ dprog' = dprog

\* C23: quit ends the session; step executes one instruction, ends the session
\* exactly if that yields Exit or an error and replaces the index otherwise;
\* cont repeats step and ends the session at the first Exit or error, which
\* comes if the program reaches one; help and print neither end the session
\* nor change the index.
C23_DebuggerSession ==
    /\ [][DebuggerSteps]_vars
    /\ [](dpc = "ended" => dend \in {"quit", "exit", "error"})
    /\ [](dpc = "ended" /\ dend # "quit" => dprog[dindex].r # "Continue")
    /\ [](dpc = "cont" /\ ProgramEnds(dindex, MaxInstructions) => <>(dpc = "ended"))

\* cont ran the program from the first instruction over another one to its Exit
C23_ContinuedToExit ==
    /\ dpc = "ended"
    /\ dcmd = "cont"
    /\ dend = "exit"
    /\ dindex # 0
    /\ dprog[0].r = "Continue"

-----------------------------------------------------------------------------
(* Properties of Import::resolve *)

OwnSymbols == iimport.symbols
ImportedSymbols == iimport.imported_symbols
NamespacedName == namespaced(iimport.namespace, iname)

\* the tables and keys in the order in which they are to be asked
LookupOrder ==
    <<<<OwnSymbols, iname>>, <<OwnSymbols, NamespacedName>>>>
    \o (IF iallow
         THEN <<<<ImportedSymbols, iname>>, <<ImportedSymbols, NamespacedName>>>>
         ELSE <<>>)

Hits == {i \in DOMAIN LookupOrder : LookupOrder[i][2] \in DOMAIN LookupOrder[i][1]}

FirstHit == CHOOSE i \in Hits : \A j \in Hits : i <= j

\* C29: resolve returns the first symbol found under name and namespace::name
\* in the own symbols and then, only if allow_imported is true, under name and
\* namespace::name in the imported symbols; an own symbol shadows an imported
\* one, and the Import is not modified.
C29_ResolveLookupOrder ==
    [][ipc = "ready" /\ ipc' = "resolved" =>
          /\ iimport' = iimport
          /\ iresult' = IF Hits = {} THEN NoSymbol
                         ELSE SomeSymbol(LookupOrder[FirstHit][1][LookupOrder[FirstHit][2]])
          /\ (iname \in DOMAIN OwnSymbols \/ NamespacedName \in DOMAIN OwnSymbols)
                => iresult'.some /\ iresult'.symbol \in {OwnSymbols[k] : k \in DOMAIN OwnSymbols}
          /\ (~iallow /\ iresult'.some)
                => iresult'.symbol \in {OwnSymbols[k] : k \in DOMAIN OwnSymbols}]_vars

\* an own symbol under namespace::name was returned although the imported
\* symbols have another symbol under the name itself
C29_OwnNamespacedShadowsImported ==
    /\ ipc = "resolved"
    /\ iallow
    /\ iname \notin DOMAIN OwnSymbols
    /\ NamespacedName \in DOMAIN OwnSymbols
    /\ iname \in DOMAIN ImportedSymbols
    /\ iresult = SomeSymbol(OwnSymbols[NamespacedName])
    /\ ImportedSymbols[iname] # OwnSymbols[NamespacedName]

-----------------------------------------------------------------------------
(* Properties of ValueRef *)

Owners(c) == {s \in Slots : vhandles[s] = ValueRef_Owner(c)}
Pointers(c) == {s \in Slots : vhandles[s] = ValueRef_Ptr(c)}

IsAccess == vlast.op \in {"clone_value", "apply", "apply_mut"}

AccessedHandle == vhandles[vlast.slot]

\* C28: an access through a Ptr succeeds with the current value while an Owner
\* of the value exists and returns the dangling-pointer error once every Owner
\* has been dropped; an access through Null returns an error; to_ptr never
\* makes an Owner, and a value without an Owner is not kept alive by its Ptrs.
C28_PointersNeverKeepValuesAlive ==
    vpc = "running" =>
      /\ (IsAccess /\ AccessedHandle.k = "Ptr" /\ Owners(AccessedHandle.cell) # {}) =>
            /\ vlast.result = ExecOkValue(vcells[AccessedHandle.cell].value)
            /\ vcells[AccessedHandle.cell].state = "live"
      /\ (IsAccess /\ AccessedHandle.k = "Ptr" /\ Owners(AccessedHandle.cell) = {}) =>
            vlast.result = ExecErr(OwnerGone)
      /\ (IsAccess /\ AccessedHandle.k = "Null") => ~vlast.result.ok
      /\ vlast.op = "to_ptr" => vhandles[vlast.slot].k # "Owner"
      /\ \A c \in Cells :
            /\ Owners(c) = {} => vcells[c] \in {Unallocated, Dropped}
            /\ Owners(c) # {} => vcells[c].state = "live" /\ vcells[c].value \in Values
            /\ Pointers(c) # {} => vcells[c] # Unallocated

\* an access through a Ptr failed after the only Owner was dropped, while a
\* second Ptr to the value is still held
C28_DanglingPointerReported ==
    /\ vpc = "running"
    /\ IsAccess
    /\ AccessedHandle.k = "Ptr"
    /\ vlast.result = ExecErr(OwnerGone)
    /\ Cardinality(Pointers(AccessedHandle.cell)) = 2

-----------------------------------------------------------------------------
(* Properties of the symbol stack of the type checker *)

StackChecked ==
    /\ tpc \in {"type_check_expression", "type_check_function"}
    /\ tout.err.ok

\* C24: whenever the check of a let, of an arm with an array pattern, of a
\* lambda body or of a function returns Ok, the symbol stack has the depth it
\* had on entry and resolves the names it resolved on entry, also when a let
\* succeeded in its retry after a nested let or arm of its body had failed.
C24_SymbolStackBalanced ==
    StackChecked =>
      /\ Len(tout.ctx) = Len(tother)
      /\ ctx_names(tout.ctx) = ctx_names(tother)

-----------------------------------------------------------------------------
(* Properties of resolve_generic_args_in_call *)

GenericArgsOf(st) == st.c.generic_args

\* every binding of before is a binding of after
BindingsKept(before, after) ==
    \A n \in DOMAIN before : n \in DOMAIN after /\ after[n] = before[n]

SizeAfterPass(k) == tout.sizes[k + 1]

\* the pass the function would make next
OneMorePass == generic_args_from(tout.ctx, tself, tout.c, 1, <<>>)

\* C26: resolve_generic_args_in_call terminates; it makes another pass over the
\* arguments only if the pass before added a binding to generic_args; no pass
\* removes or changes a binding; and when it returns, one more pass would add
\* no binding and the argument types returned are those under the final
\* substitution.
C26_GenericArgsResolved ==
    /\ <>(tpc \in {"returned", "failed"})
    /\ [](tpc = "loop" /\ tround >= 1 => SizeAfterPass(tround) > SizeAfterPass(tround - 1))
    /\ [](tpc = "returned" => SizeAfterPass(tround) = SizeAfterPass(tround - 1))
    /\ [][tpc = "loop" => BindingsKept(GenericArgsOf(tout), GenericArgsOf(tout'))]_vars
    /\ [](tpc = "returned" =>
            /\ GenericArgsOf(OneMorePass) = GenericArgsOf(tout)
            /\ OneMorePass.err.ok /\ OneMorePass.arg_types = tout.arg_types
            /\ \A i \in DOMAIN tout.arg_types :
                  substitute(GenericArgsOf(tout), tout.arg_types[i]) = tout.arg_types[i]
            /\ resolve_generic_args_in_call(<<GenericCallScope>>, tself, tother)
                  = [err |-> Ok, c |-> tout.c, ctx |-> tout.ctx, arg_types |-> tout.arg_types])

\* the function returned after a second pass, with both type variables of the
\* callee bound by the first
C26_SecondPassAddedNothing ==
    /\ tpc = "returned"
    /\ tround = 2
    /\ tout.sizes = <<0, 2, 2>>

====
